---- MODULE Spec2Model ----
(***************************************************************************)
(* Model of the video segmentation service (segmentVideo with its fallback *)
(* chain), of the helpers it uses (safeGet, sanitizeFileName,               *)
(* timestampToSeconds, calculateDuration, getOutputOptions) and of the      *)
(* per-video orchestration (processVideo with the progress tracker).        *)
(*                                                                           *)
(* Strings of the program are sequences of one-character strings, so that   *)
(* the regular-expression replacements and the ':' split are computed as    *)
(* the code computes them.  Null stands for undefined/null.                 *)
(***************************************************************************)
EXTENDS Integers, Sequences, FiniteSets, TLC

(***************************************************************************)
(* Bounds of the model.                                                     *)
(***************************************************************************)
MaxSegs == 2
MaxCalls == 2

(* undefined / null, as a string value and as an object value *)
Null == <<"<null>">>

NullObj == [null |-> TRUE]

(***************************************************************************)
(* Characters.  \w is [A-Za-z0-9_], \s is whitespace.  The model's          *)
(* alphabet is the letters below, digits, '_', '-', ' ', ':' and '!'.       *)
(***************************************************************************)
Digits == <<"0", "1", "2", "3", "4", "5", "6", "7", "8", "9">>

DigitSet == {Digits[i] : i \in 1..10}

Letters ==
  {"a", "b", "c", "d", "e", "g", "h", "i", "l", "m", "n", "o", "p", "r", "s",
   "t", "u", "v", "x", "C", "F", "I", "P", "V"}

IsWordChar(ch) == ch \in Letters \cup DigitSet \cup {"_"}

IsSpaceChar(ch) == ch = " "

DigitValue(ch) == (CHOOSE i \in 1..10 : Digits[i] = ch) - 1

(* Number.prototype.toString for a non-negative integer *)
RECURSIVE NatToString(_)
NatToString(n) ==
  IF n < 10 THEN <<Digits[n + 1]>>
  ELSE NatToString(n \div 10) \o <<Digits[(n % 10) + 1]>>

(***************************************************************************)
(* guards.ts                                                                *)
(***************************************************************************)
isDefined(value) == value # NullObj

(* obj[key] != null ? obj[key] : defaultValue *)
safeGet(obj, key, defaultValue) ==
  IF obj = NullObj THEN defaultValue
  ELSE IF obj[key] # Null THEN obj[key] ELSE defaultValue

(***************************************************************************)
(* string.ts: sanitizeFileName                                              *)
(***************************************************************************)
(* str.replace(/[^\w\s-]/gi, '') *)
RemoveUnsafe(str) ==
  SelectSeq(str, LAMBDA ch : IsWordChar(ch) \/ IsSpaceChar(ch) \/ ch = "-")

(* str.replace(/\s+/g, '_'): every maximal run of whitespace becomes one '_' *)
RECURSIVE CollapseSpaces(_)
CollapseSpaces(str) ==
  IF str = <<>> THEN <<>>
  ELSE IF IsSpaceChar(Head(str))
       THEN IF Len(str) > 1 /\ IsSpaceChar(str[2])
            THEN CollapseSpaces(Tail(str))
            ELSE <<"_">> \o CollapseSpaces(Tail(str))
       ELSE <<Head(str)>> \o CollapseSpaces(Tail(str))

(* a sanitizeFileName that only replaces the whitespace *)
sanitizeFileNameKeepUnsafe(input, defaultValue) ==
  IF input = Null THEN defaultValue
  ELSE CollapseSpaces(input)

sanitizeFileName(input, defaultValue) ==
  IF input = Null THEN defaultValue
  ELSE CollapseSpaces(RemoveUnsafe(input))

(***************************************************************************)
(* processor: timestampToSeconds, calculateDuration                         *)
(* A JavaScript number is a record: nan is TRUE for NaN, v is the value.    *)
(***************************************************************************)
Num(n) == [nan |-> FALSE, v |-> n]

NaN == [nan |-> TRUE, v |-> 0]

NumAdd(a, b) == IF a.nan \/ b.nan THEN NaN ELSE Num(a.v + b.v)

NumSub(a, b) == IF a.nan \/ b.nan THEN NaN ELSE Num(a.v - b.v)

NumMul(a, k) == IF a.nan THEN NaN ELSE Num(a.v * k)

(* timestamp.split(':') *)
RECURSIVE SplitColon(_, _)
SplitColon(str, cur) ==
  IF str = <<>> THEN <<cur>>
  ELSE IF Head(str) = ":" THEN <<cur>> \o SplitColon(Tail(str), <<>>)
       ELSE SplitColon(Tail(str), Append(cur, Head(str)))

RECURSIVE DigitsValue(_, _)
DigitsValue(str, acc) ==
  IF str = <<>> THEN acc
  ELSE DigitsValue(Tail(str), acc * 10 + DigitValue(Head(str)))

(* Number(part): '' is 0, a run of digits is its value, anything else in   *)
(* the model's alphabet is NaN                                              *)
ToNumber(part) ==
  IF \A i \in 1..Len(part) : part[i] \in DigitSet
  THEN Num(DigitsValue(part, 0))
  ELSE NaN

timestampToSeconds(timestamp) ==
  LET parts == [i \in 1..Len(SplitColon(timestamp, <<>>)) |->
                  ToNumber(SplitColon(timestamp, <<>>)[i])]
  IN  IF Len(parts) = 3
      THEN NumAdd(NumAdd(NumMul(parts[1], 3600), NumMul(parts[2], 60)), parts[3])
      ELSE IF Len(parts) = 2
           THEN NumAdd(NumMul(parts[1], 60), parts[2])
           ELSE parts[1]

calculateDuration(start, end) ==
  NumSub(timestampToSeconds(end), timestampToSeconds(start))

(***************************************************************************)
(* processor: the option sets of segmentVideo                               *)
(***************************************************************************)
Formats == {"mp4", "mkv", "webm", "ts"}

Qualities == {"high", "medium", "low"}

(* settings with the same arguments, those of ts, for every format *)
qualitySettingsAllAsTs ==
  [quality \in Qualities |->
     [format \in Formats |->
        <<"-c:v libx264", "-crf 22", "-preset fast", "-c:a aac", "-b:a 128k">>]]

qualitySettings ==
  [high |->
     [mp4 |-> <<"-c:v libx264", "-crf 18", "-preset medium", "-c:a aac",
                "-b:a 192k", "-movflags faststart">>,
      mkv |-> <<"-c:v libx264", "-crf 18", "-preset medium", "-c:a libopus",
                "-b:a 192k">>,
      webm |-> <<"-c:v libvpx-vp9", "-crf 20", "-b:v 2M", "-c:a libopus",
                 "-b:a 128k">>,
      ts |-> <<"-c:v libx264", "-crf 18", "-preset medium", "-c:a aac",
               "-b:a 192k">>],
   medium |->
     [mp4 |-> <<"-c:v libx264", "-crf 22", "-preset fast", "-c:a aac",
                "-b:a 128k", "-movflags faststart">>,
      mkv |-> <<"-c:v libx264", "-crf 22", "-preset fast", "-c:a libopus",
                "-b:a 128k">>,
      webm |-> <<"-c:v libvpx-vp9", "-crf 30", "-b:v 1M", "-c:a libopus",
                 "-b:a 96k", "-cpu-used 2">>,
      ts |-> <<"-c:v libx264", "-crf 22", "-preset fast", "-c:a aac",
               "-b:a 128k">>],
   low |->
     [mp4 |-> <<"-c:v libx264", "-crf 28", "-preset ultrafast", "-c:a aac",
                "-b:a 96k", "-movflags faststart">>,
      mkv |-> <<"-c:v libx264", "-crf 28", "-preset ultrafast",
                "-c:a libopus", "-b:a 96k">>,
      webm |-> <<"-c:v libvpx-vp9", "-crf 35", "-b:v 500k", "-c:a libopus",
                 "-b:a 64k", "-cpu-used 4">>,
      ts |-> <<"-c:v libx264", "-crf 28", "-preset ultrafast", "-c:a aac",
               "-b:a 96k">>]]

(* qualitySettings[selectedQuality] is undefined for a quality that is not *)
(* a key, and reading a property of undefined throws a TypeError            *)
OptionsTypeError == <<"<TypeError>">>

(* qualitySettings[selectedQuality][selectedFormat] is undefined for a     *)
(* format that is not a key                                                  *)
OptionsUndefined == <<"<undefined>">>

(* what the Promise executor does once it has the options: it throws the   *)
(* TypeError, or builds the command and runs the tool; with undefined       *)
(* options the fluent-ffmpeg call may do either                             *)
OptionsOutcomes(options) ==
  IF options = OptionsTypeError THEN {"throws"}
  ELSE IF options = OptionsUndefined THEN {"throws", "runs"}
  ELSE {"runs"}

(* the arrow function getOutputOptions; audioOnly is the variable of the   *)
(* enclosing call that it closes over                                       *)
getOutputOptions(selectedFormat, selectedQuality, useStreamCopy, audioOnly) ==
  IF useStreamCopy
  THEN CASE selectedFormat = "mp4" ->
              <<"-c copy", "-movflags faststart", "-avoid_negative_ts 1">>
         [] selectedFormat = "mkv" -> <<"-c copy">>
         [] selectedFormat = "webm" ->
              <<"-c:v libvpx-vp9", "-c:a libopus", "-b:v 1M", "-cpu-used 2">>
         [] selectedFormat = "ts" ->
              <<"-c copy", "-mpegts_flags +resend_headers">>
         [] OTHER -> <<"-c copy">>
  ELSE IF audioOnly
       THEN CASE selectedFormat = "mp4" -> <<"-vn", "-c:a aac", "-b:a 128k">>
              [] selectedFormat = "mkv" -> <<"-vn", "-c:a libopus", "-b:a 128k">>
              [] selectedFormat = "webm" -> <<"-vn", "-c:a libopus", "-b:a 128k">>
              [] selectedFormat = "ts" -> <<"-vn", "-c:a aac", "-b:a 128k">>
              [] OTHER -> <<"-vn", "-c:a aac", "-b:a 128k">>
       ELSE IF selectedQuality \notin DOMAIN qualitySettings
            THEN OptionsTypeError
            ELSE IF selectedFormat \notin DOMAIN qualitySettings[selectedQuality]
                 THEN OptionsUndefined
                 ELSE qualitySettings[selectedQuality][selectedFormat]

(* const formatExtension = format === 'ts' ? '.ts' : `.${format}` *)
formatExtension(format) == IF format = "ts" THEN ".ts" ELSE "." \o format

(* `segment_${index + 1}`, index counted from 0 as in the code *)
SegmentPlaceholder(index) ==
  <<"s", "e", "g", "m", "e", "n", "t", "_">> \o NatToString(index + 1)

(* path.join(outputDir, `${sanitizedName}${formatExtension}`) *)
OutputPath(outputDir, segment, index, format) ==
  LET name == safeGet(segment, "name", SegmentPlaceholder(index))
      sanitizedName == sanitizeFileName(name, SegmentPlaceholder(index))
  IN  <<outputDir>> \o sanitizedName \o <<formatExtension(format)>>

SegStart(segment) ==
  safeGet(segment, "start", <<"0", "0", ":", "0", "0", ":", "0", "0">>)

(* the end of the segment taken as it is *)
SegEndNoDefault(segment) == segment.end

SegEnd(segment) ==
  safeGet(segment, "end", <<"2", "3", ":", "5", "9", ":", "5", "9">>)

(***************************************************************************)
(* Inputs of the model                                                      *)
(***************************************************************************)
T000000 == <<"0", "0", ":", "0", "0", ":", "0", "0">>

T000130 == <<"0", "0", ":", "0", "1", ":", "3", "0">>

T000200 == <<"0", "0", ":", "0", "2", ":", "0", "0">>

(* 30 s, "Intro"-like name *)
SegIntro == [name |-> <<"a">>, start |-> T000130, end |-> T000200]

(* end before start; the name holds characters the sanitizer rewrites *)
SegBackwards == [name |-> <<"b", ":", " ", "c", "!">>, start |-> T000200, end |-> T000130]

(* every field missing *)
SegMissing == [name |-> Null, start |-> Null, end |-> Null]

(* same name as SegIntro; bare seconds and MM:SS timestamps, end = start *)
SegSameName == [name |-> <<"a">>, start |-> <<"9", "0">>, end |-> <<"1", ":", "3", "0">>]

SegmentPool == {SegIntro, SegBackwards, SegMissing, SegSameName}

SegmentLists == UNION {[1..n -> SegmentPool] : n \in 1..MaxSegs}

OptionSets ==
  [format : Formats, quality : Qualities, forceEncode : BOOLEAN,
   audioOnly : BOOLEAN]

(* options = {}: format 'mp4', quality 'medium', no forceEncode, no audioOnly *)
DefaultOptions ==
  [format |-> "mp4", quality |-> "medium", forceEncode |-> FALSE,
   audioOnly |-> FALSE]

(* error messages of the external tool *)
ToolErrors == {"moov atom not found", "Invalid data found"}

(***************************************************************************)
(* State                                                                    *)
(*   files  the output files on disk: path -> "partial" | "complete"        *)
(*   sv     per caller, the state of its segmentVideo call                  *)
(*   pv     per video, the state of its processVideo call                  *)
(*   progress      the tracker object shared by all processVideo calls      *)
(*   progressFile  the content of progress.json                             *)
(*   main   the position of main: its state and the next batch              *)
(*   env    config.devMode, forceReprocess, config.concurrency              *)
(*   unit   the helper call made by a specification of one helper          *)
(***************************************************************************)
VARIABLES files, sv, pv, progress, progressFile, main, env, unit

vars == <<files, sv, pv, progress, progressFile, main, env, unit>>

NoUnit == [fn |-> "none"]

(* segmentVideo touches nothing of the orchestration *)
OrchestrationUnchanged ==
  UNCHANGED <<pv, progress, progressFile, main, env, unit>>

NoPrev == [outcome |-> "none", outputPaths |-> <<>>, files |-> {}, failedAt |-> 0]

IdleCall ==
  [pc |-> "idle", segments |-> <<>>, options |-> DefaultOptions,
   outputDir |-> "out", index |-> 0, outputPaths |-> <<>>,
   invocations |-> <<>>, skipped |-> {}, error |-> <<>>, calls |-> 0,
   prev |-> NoPrev]

(* the segment the loop is at, and its destination *)
CurSegment(c) == sv[c].segments[sv[c].index + 1]

CurPath(c) ==
  OutputPath(sv[c].outputDir, CurSegment(c), sv[c].index, sv[c].options.format)

(* a check of another file name than the destination's *)
pathExistsOtherName(path) == Append(path, ".part") \in DOMAIN files

pathExists(path) == path \in DOMAIN files

(* ffmpeg(inputPath).setStartTime(start).duration(...).output(outputPath)  *)
(*   .outputOptions(getOutputOptions(format, quality, useStreamCopy)).run() *)
Invocation(c, step, useStreamCopy) ==
  [index |-> sv[c].index, step |-> step,
   start |-> SegStart(CurSegment(c)),
   duration |-> calculateDuration(SegStart(CurSegment(c)), SegEnd(CurSegment(c))),
   output |-> CurPath(c),
   options |-> getOutputOptions(sv[c].options.format, sv[c].options.quality,
                                useStreamCopy, sv[c].options.audioOnly),
   result |-> "running", text |-> ""]

LastInvocation(c) == sv[c].invocations[Len(sv[c].invocations)]

SetLastResult(c, result, text) ==
  [sv[c].invocations EXCEPT ![Len(sv[c].invocations)] =
     [@ EXCEPT !.result = result, !.text = text]]

(* what a failed run of the tool leaves at its destination: nothing new, or *)
(* a partly written file                                                    *)
FilesAfterError(path, leavesPartial) ==
  IF leavesPartial
  THEN [p \in DOMAIN files \cup {path} |-> IF p = path THEN "partial" ELSE files[p]]
  ELSE files

FilesAfterEnd(path) ==
  [p \in DOMAIN files \cup {path} |-> IF p = path THEN "complete" ELSE files[p]]

(***************************************************************************)
(* segmentVideo                                                             *)
(***************************************************************************)
(* entry of segmentVideo up to the loop: outputPaths = [], ensureDir *)
EnterSegmentVideo(c, segments, options, outputDir) ==
  [sv[c] EXCEPT !.pc = "loop", !.segments = segments, !.options = options,
                !.outputDir = outputDir, !.index = 0, !.outputPaths = <<>>,
                !.invocations = <<>>, !.skipped = {}, !.error = <<>>,
                !.calls = @ + 1,
                !.prev = IF sv[c].pc = "idle" THEN NoPrev
                         ELSE [outcome |-> sv[c].pc,
                               outputPaths |-> sv[c].outputPaths,
                               files |-> DOMAIN files,
                               failedAt |-> sv[c].index]]

(* a first call with any inputs *)
StartCall(c) ==
  /\ sv[c].pc = "idle"
  /\ \E segments \in SegmentLists, options \in OptionSets :
       sv' = [sv EXCEPT ![c] = EnterSegmentVideo(c, segments, options, "out")]
  /\ UNCHANGED files
  /\ OrchestrationUnchanged

(* the same call again, with identical inputs, against the same directory *)
Rerun(c) ==
  /\ sv[c].pc \in {"returned", "thrown"}
  /\ sv[c].calls < MaxCalls
  /\ sv' = [sv EXCEPT ![c] = EnterSegmentVideo(c, sv[c].segments,
                                               sv[c].options, sv[c].outputDir)]
  /\ UNCHANGED files
  /\ OrchestrationUnchanged

(* the loop is over: return outputPaths *)
SegReturn(c) ==
  /\ sv[c].pc = "loop"
  /\ sv[c].index = Len(sv[c].segments)
  /\ sv' = [sv EXCEPT ![c].pc = "returned"]
  /\ UNCHANGED files
  /\ OrchestrationUnchanged

(* an exists branch that forgets the push *)
SegExistsNoPush(c) ==
  /\ sv[c].pc = "loop"
  /\ sv[c].index < Len(sv[c].segments)
  /\ pathExists(CurPath(c))
  /\ sv' = [sv EXCEPT ![c].skipped = @ \cup {sv[c].index},
                      ![c].index = @ + 1]
  /\ UNCHANGED files
  /\ OrchestrationUnchanged

(* if (await fs.pathExists(outputPath)) { outputPaths.push; continue } *)
SegExists(c) ==
  /\ sv[c].pc = "loop"
  /\ sv[c].index < Len(sv[c].segments)
  /\ pathExists(CurPath(c))
  /\ sv' = [sv EXCEPT ![c].outputPaths = Append(@, CurPath(c)),
                      ![c].skipped = @ \cup {sv[c].index},
                      ![c].index = @ + 1]
  /\ UNCHANGED files
  /\ OrchestrationUnchanged

(* a forced run that asks for the copy options *)
SegStartForcedCopy(c) ==
  /\ sv[c].pc = "loop"
  /\ sv[c].index < Len(sv[c].segments)
  /\ ~pathExists(CurPath(c))
  /\ sv[c].options.forceEncode
  /\ sv' = [sv EXCEPT ![c].invocations = Append(@, Invocation(c, "forced", TRUE)),
                      ![c].pc = "forced"]
  /\ UNCHANGED files
  /\ OrchestrationUnchanged

(* if (forceEncode): one run with the encode options; an exception of the *)
(* executor rejects the promise and leaves the loop                         *)
SegStartForced(c) ==
  /\ sv[c].pc = "loop"
  /\ sv[c].index < Len(sv[c].segments)
  /\ ~pathExists(CurPath(c))
  /\ sv[c].options.forceEncode
  /\ \E outcome \in OptionsOutcomes(Invocation(c, "forced", FALSE).options) :
       sv' = IF outcome = "runs"
             THEN [sv EXCEPT ![c].invocations =
                               Append(@, Invocation(c, "forced", FALSE)),
                             ![c].pc = "forced"]
             ELSE [sv EXCEPT ![c].error = <<"TypeError">>,
                             ![c].pc = "thrown"]
  /\ UNCHANGED files
  /\ OrchestrationUnchanged

(* a copy run that is started and not awaited *)
SegStartCopyNoAwait(c) ==
  /\ sv[c].pc = "loop"
  /\ sv[c].index < Len(sv[c].segments)
  /\ ~pathExists(CurPath(c))
  /\ ~sv[c].options.forceEncode
  /\ sv' = [sv EXCEPT ![c].invocations = Append(@, Invocation(c, "copy", TRUE)),
                      ![c].index = @ + 1]
  /\ UNCHANGED files
  /\ OrchestrationUnchanged

(* try with stream copy first *)
SegStartCopy(c) ==
  /\ sv[c].pc = "loop"
  /\ sv[c].index < Len(sv[c].segments)
  /\ ~pathExists(CurPath(c))
  /\ ~sv[c].options.forceEncode
  /\ sv' = [sv EXCEPT ![c].invocations = Append(@, Invocation(c, "copy", TRUE)),
                      ![c].pc = "copy"]
  /\ UNCHANGED files
  /\ OrchestrationUnchanged

(* .on('end'): outputPaths.push(outputPath); resolve() -- next iteration *)
ToolEnd(c) ==
  /\ sv[c].pc \in {"copy", "fallback", "forced"}
  /\ files' = FilesAfterEnd(CurPath(c))
  /\ sv' = [sv EXCEPT ![c].invocations = SetLastResult(c, "end", ""),
                      ![c].outputPaths = Append(@, CurPath(c)),
                      ![c].index = @ + 1,
                      ![c].pc = "loop"]
  /\ OrchestrationUnchanged

(* a copy failure that is not caught: no encode run follows *)
CopyErrorNoFallback(c) ==
  /\ sv[c].pc = "copy"
  /\ \E text \in ToolErrors, leavesPartial \in BOOLEAN :
       /\ files' = FilesAfterError(CurPath(c), leavesPartial)
       /\ sv' = [sv EXCEPT ![c].invocations = SetLastResult(c, "error", text),
                           ![c].error = <<text>>,
                           ![c].pc = "thrown"]
  /\ OrchestrationUnchanged

(* .on('error') of the copy run: reject(err); the catch block starts the   *)
(* encode run for the same segment                                          *)
CopyError(c) ==
  /\ sv[c].pc = "copy"
  /\ \E text \in ToolErrors, leavesPartial \in BOOLEAN :
       /\ files' = FilesAfterError(CurPath(c), leavesPartial)
       /\ \E outcome \in OptionsOutcomes(Invocation(c, "fallback", FALSE).options) :
            sv' = IF outcome = "runs"
                  THEN [sv EXCEPT ![c].invocations =
                                    Append(SetLastResult(c, "error", text),
                                           Invocation(c, "fallback", FALSE)),
                                  ![c].pc = "fallback"]
                  ELSE [sv EXCEPT ![c].invocations =
                                    SetLastResult(c, "error", text),
                                  ![c].error = <<"TypeError">>,
                                  ![c].pc = "thrown"]
  /\ OrchestrationUnchanged

(* a failed forced encode that is followed by one more encode run *)
EncodeErrorForcedRetry(c) ==
  /\ sv[c].pc \in {"fallback", "forced"}
  /\ \E text \in ToolErrors, leavesPartial \in BOOLEAN :
       /\ files' = FilesAfterError(CurPath(c), leavesPartial)
       /\ sv' = IF sv[c].pc = "forced"
                THEN [sv EXCEPT ![c].invocations =
                                  Append(SetLastResult(c, "error", text),
                                         Invocation(c, "fallback", FALSE)),
                                ![c].pc = "fallback"]
                ELSE [sv EXCEPT ![c].invocations = SetLastResult(c, "error", text),
                                ![c].error = <<"Error encoding segment: ", text>>,
                                ![c].pc = "thrown"]
  /\ OrchestrationUnchanged

(* .on('error') of an encode run: reject(new Error(`Error encoding         *)
(* segment: ${err.message}`)); nothing catches it inside the loop, the      *)
(* outer catch logs and rethrows                                            *)
EncodeError(c) ==
  /\ sv[c].pc \in {"fallback", "forced"}
  /\ \E text \in ToolErrors, leavesPartial \in BOOLEAN :
       /\ files' = FilesAfterError(CurPath(c), leavesPartial)
       /\ sv' = [sv EXCEPT ![c].invocations = SetLastResult(c, "error", text),
                           ![c].error = <<"Error encoding segment: ", text>>,
                           ![c].pc = "thrown"]
  /\ OrchestrationUnchanged

SegmentVideoStep(c) ==
  \/ SegReturn(c)
  \/ SegExists(c)
  \/ SegStartForced(c)
  \/ SegStartCopy(c)
  \/ ToolEnd(c)
  \/ CopyError(c)
  \/ EncodeError(c)

(***************************************************************************)
(* Specification of segmentVideo called directly, any number of times up   *)
(* to MaxCalls, against one output directory that starts empty.             *)
(***************************************************************************)
EmptyTracker == [completed |-> <<>>, failed |-> <<>>]

Init ==
  /\ files = <<>>
  /\ sv = [c \in {"direct"} |-> IdleCall]
  /\ pv = <<>>
  /\ progress = EmptyTracker
  /\ progressFile = EmptyTracker
  /\ main = [pc |-> "none", batch |-> 0]
  /\ env = [devMode |-> FALSE, force |-> FALSE, concurrency |-> 1]
  /\ unit = NoUnit

Next ==
  \/ StartCall("direct")
  \/ Rerun("direct")
  \/ SegReturn("direct")
  \/ SegExists("direct")
  \/ SegStartForced("direct")
  \/ SegStartCopy("direct")
  \/ ToolEnd("direct")
  \/ CopyError("direct")
  \/ EncodeError("direct")

Spec == Init /\ [][Next]_vars

TypeOK ==
  /\ \A p \in DOMAIN files : files[p] \in {"partial", "complete"}
  /\ \A c \in DOMAIN sv :
       /\ sv[c].pc \in {"idle", "loop", "copy", "fallback", "forced",
                        "returned", "thrown"}
       /\ sv[c].index \in 0..Len(sv[c].segments)

(***************************************************************************)
(* Properties of segmentVideo                                               *)
(***************************************************************************)
Indexes(c) == 0..(Len(sv[c].segments) - 1)

InvocationsOf(c, i) ==
  SelectSeq(sv[c].invocations, LAMBDA inv : inv.index = i)

PathOf(c, i) ==
  OutputPath(sv[c].outputDir, sv[c].segments[i + 1], i, sv[c].options.format)

HasArg(options, arg) == \E k \in 1..Len(options) : options[k] = arg

(* C1: without forceEncode and for mp4, mkv and ts, the first run of the   *)
(* tool for a segment uses the stream-copy arguments, a second run exists   *)
(* exactly when the first one failed and is a re-encode, there are never    *)
(* more than two runs for a segment, and no run follows a successful one.   *)
FallbackDeterminism ==
  \A c \in DOMAIN sv :
    (~sv[c].options.forceEncode /\ sv[c].options.format \in {"mp4", "mkv", "ts"}) =>
      \A i \in Indexes(c) :
        LET invs == InvocationsOf(c, i)
        IN  /\ Len(invs) <= 2
            /\ (Len(invs) >= 1) => HasArg(invs[1].options, "-c copy")
            /\ (Len(invs) = 2) <=> (Len(invs) >= 1 /\ invs[1].result = "error")
            /\ (Len(invs) = 2) => ~HasArg(invs[2].options, "-c copy")
            /\ \A k \in 1..Len(invs) : invs[k].result = "end" => k = Len(invs)

FallbackWitness ==
  \E c \in DOMAIN sv :
    /\ ~sv[c].options.forceEncode
    /\ sv[c].options.format = "ts"
    /\ Len(InvocationsOf(c, 0)) = 2
    /\ InvocationsOf(c, 0)[1].result = "error"
    /\ InvocationsOf(c, 0)[2].result = "end"

(* C2: when the call has failed, every segment of the list has been        *)
(* attempted (found existing, or handed to the tool).                       *)
AllSegmentsAttemptedBeforeFailure ==
  \A c \in DOMAIN sv :
    sv[c].pc = "thrown" =>
      \A i \in Indexes(c) : i \in sv[c].skipped \/ InvocationsOf(c, i) # <<>>

(* C3: a segment found existing has no run of the tool and its path is in  *)
(* the result at its place; a call that follows a successful call with the  *)
(* same inputs runs the tool for nothing, changes no file and returns the   *)
(* same list; a call that follows one that failed at segment k runs the     *)
(* tool for no segment before k.                                            *)
Idempotence ==
  \A c \in DOMAIN sv :
    /\ \A i \in sv[c].skipped :
         /\ InvocationsOf(c, i) = <<>>
         /\ sv[c].outputPaths[i + 1] = PathOf(c, i)
    /\ sv[c].prev.outcome = "returned" =>
         /\ sv[c].invocations = <<>>
         /\ DOMAIN files = sv[c].prev.files
         /\ sv[c].pc = "returned" => sv[c].outputPaths = sv[c].prev.outputPaths
    /\ sv[c].prev.outcome = "thrown" =>
         \A k \in 1..Len(sv[c].invocations) :
           sv[c].invocations[k].index >= sv[c].prev.failedAt

IdempotenceWitness ==
  \E c \in DOMAIN sv :
    /\ sv[c].pc = "returned"
    /\ sv[c].prev.outcome = "returned"
    /\ Len(sv[c].segments) = 2
    /\ sv[c].skipped = {0, 1}
    /\ Cardinality(DOMAIN files) = 2

(* C4: a call that returns has one entry per input segment, entry i being  *)
(* the destination of segment i.                                            *)
OrderPreservation ==
  \A c \in DOMAIN sv :
    sv[c].pc = "returned" =>
      /\ Len(sv[c].outputPaths) = Len(sv[c].segments)
      /\ \A i \in Indexes(c) : sv[c].outputPaths[i + 1] = PathOf(c, i)

OrderWitness ==
  \E c \in DOMAIN sv :
    /\ sv[c].pc = "returned"
    /\ Len(sv[c].segments) = 2
    /\ sv[c].skipped = {1}
    /\ \E k \in 1..Len(sv[c].invocations) :
         /\ sv[c].invocations[k].step = "fallback"
         /\ sv[c].invocations[k].result = "end"

(* C5: for webm every segment gets one run only, with the VP9/Opus         *)
(* arguments of the requested quality (the audio arguments when audioOnly). *)
WebmEncodesOnce ==
  \A c \in DOMAIN sv :
    sv[c].options.format = "webm" =>
      /\ \A i \in Indexes(c) : Len(InvocationsOf(c, i)) <= 1
      /\ \A k \in 1..Len(sv[c].invocations) :
           sv[c].invocations[k].options =
             IF sv[c].options.audioOnly
             THEN <<"-vn", "-c:a libopus", "-b:a 128k">>
             ELSE qualitySettings[sv[c].options.quality]["webm"]

(* C6: with forceEncode a segment gets at most one run, a re-encode with   *)
(* the arguments of the requested format and quality and never a copy; a    *)
(* clean exit records the path and a failure ends the call at that segment. *)
ForcedEncodeOnce ==
  \A c \in DOMAIN sv :
    sv[c].options.forceEncode =>
      \A i \in Indexes(c) :
        LET invs == InvocationsOf(c, i)
        IN  /\ Len(invs) <= 1
            /\ (Len(invs) = 1) =>
                 /\ invs[1].step = "forced"
                 /\ ~HasArg(invs[1].options, "-c copy")
                 /\ IF sv[c].options.audioOnly
                    THEN invs[1].options[1] = "-vn"
                    ELSE invs[1].options =
                           qualitySettings[sv[c].options.quality][sv[c].options.format]
                 /\ invs[1].result = "end" =>
                      /\ sv[c].index > i
                      /\ sv[c].outputPaths[i + 1] = invs[1].output
                 /\ invs[1].result = "error" =>
                      /\ sv[c].pc = "thrown"
                      /\ sv[c].index = i
                      /\ Len(sv[c].outputPaths) = i

ForcedWitness ==
  \E c \in DOMAIN sv :
    /\ sv[c].options.forceEncode
    /\ sv[c].pc = "thrown"
    /\ Len(sv[c].invocations) = 2
    /\ sv[c].invocations[1].result = "end"
    /\ sv[c].invocations[2].result = "error"

(* C7: the tool is never run with a duration that is not positive.         *)
DurationAlwaysPositive ==
  \A c \in DOMAIN sv :
    \A k \in 1..Len(sv[c].invocations) :
      /\ ~sv[c].invocations[k].duration.nan
      /\ sv[c].invocations[k].duration.v > 0

(* C8: a segment is taken as already done by the exists check only when    *)
(* its file is the product of a run that ended cleanly, never when it is    *)
(* what a failed run left behind.                                           *)
NoPartialFileAccepted ==
  \A c \in DOMAIN sv :
    \A i \in sv[c].skipped : files[PathOf(c, i)] = "complete"

(* C9: every path of the result comes from a clean exit of the tool for    *)
(* that destination (in this call, or the one that produced the file); a    *)
(* failed run adds no path and no segment adds two.                         *)
SuccessOnlyOnCleanExit ==
  \A c \in DOMAIN sv :
    /\ Len(sv[c].outputPaths) <= sv[c].index
    /\ \A k \in 1..Len(sv[c].outputPaths) :
         \/ \E n \in 1..Len(sv[c].invocations) :
              /\ sv[c].invocations[n].index = k - 1
              /\ sv[c].invocations[n].result = "end"
         \/ files[sv[c].outputPaths[k]] = "complete"

(***************************************************************************)
(* downloader: detectVideoChapters, formatSeconds                           *)
(***************************************************************************)
(* n.toString().padStart(2, '0') *)
PadStart2(n) ==
  IF Len(NatToString(n)) < 2 THEN <<"0">> \o NatToString(n) ELSE NatToString(n)

(* a formatSeconds whose minutes are not reduced to the hour *)
formatSecondsTotalMinutes(seconds) ==
  LET hours == seconds \div 3600
      minutes == seconds \div 60
      secs == seconds % 60
  IN  PadStart2(hours) \o <<":">> \o PadStart2(minutes) \o <<":">> \o PadStart2(secs)

formatSeconds(seconds) ==
  LET hours == seconds \div 3600
      minutes == (seconds % 3600) \div 60
      secs == seconds % 60
  IN  PadStart2(hours) \o <<":">> \o PadStart2(minutes) \o <<":">> \o PadStart2(secs)

(* chapters.map(...) of detectVideoChapters; index counted from 0 *)
ChapterToSegment(info, index) ==
  LET chapterData == info.chapters[index + 1]
      endTime ==
        IF isDefined(chapterData.end_time) THEN chapterData.end_time.v
        ELSE IF index < Len(info.chapters) - 1
             THEN (* safeGetNested(nextChapter, ['start_time'], 0) *)
                  IF isDefined(info.chapters[index + 2].start_time)
                  THEN info.chapters[index + 2].start_time.v ELSE 0
             ELSE DigitsValue(info.lengthSeconds, 0)
      (* chapterData.start_time || 0 *)
      startTime ==
        IF isDefined(chapterData.start_time) THEN chapterData.start_time.v ELSE 0
      chapterTitle ==
        safeGet(chapterData, "title",
                <<"C", "h", "a", "p", "t", "e", "r", " ">> \o NatToString(index + 1))
  IN  [name |-> chapterTitle,
       start |-> formatSeconds(startTime),
       end |-> formatSeconds(endTime)]

detectVideoChapters(info) ==
  IF Len(info.chapters) = 0 THEN <<>>
  ELSE [k \in 1..Len(info.chapters) |-> ChapterToSegment(info, k - 1)]

(***************************************************************************)
(* The videos of data/videos.json and what the chapter service answers      *)
(***************************************************************************)
AutoSegments == <<[auto |-> TRUE]>>

Videos == <<"v1", "v2">>

VideoConfigs ==
  [v1 |-> [id |-> "v1", segments |-> <<SegIntro, SegSameName>>,
           formatOptions |-> [format |-> "mkv", quality |-> "high",
                              forceEncode |-> TRUE, audioOnly |-> FALSE]],
   v2 |-> [id |-> "v2", segments |-> AutoSegments, formatOptions |-> NullObj]]

VideoIds == {Videos[k] : k \in 1..Len(Videos)}

ChapterInfos ==
  {[chapters |-> <<>>, lengthSeconds |-> <<"1", "2", "0">>],
   [chapters |-> <<[title |-> Null, start_time |-> Num(0), end_time |-> Num(90)],
                   [title |-> <<"b">>, start_time |-> Num(90), end_time |-> NullObj]>>,
    lengthSeconds |-> <<"1", "2", "0">>]}

FullVideo ==
  [name |-> <<"F", "u", "l", "l", " ", "V", "i", "d", "e", "o">>,
   start |-> T000000,
   end |-> <<"2", "3", ":", "5", "9", ":", "5", "9">>]

(***************************************************************************)
(* progress: markVideoCompleted, markVideoFailed (the tracker they leave)   *)
(***************************************************************************)
Includes(seq, x) == \E k \in 1..Len(seq) : seq[k] = x

(* a markVideoCompleted without the includes test *)
markVideoCompletedNoTest(tracker, videoId) ==
  [completed |-> Append(tracker.completed, videoId),
   failed |-> SelectSeq(tracker.failed, LAMBDA item : item.id # videoId)]

markVideoCompleted(tracker, videoId) ==
  IF Includes(tracker.completed, videoId) THEN tracker
  ELSE [completed |-> Append(tracker.completed, videoId),
        failed |-> SelectSeq(tracker.failed, LAMBDA item : item.id # videoId)]

(* a markVideoFailed that keeps the entry the id already has *)
markVideoFailedKeepEntry(tracker, videoId, error) ==
  [completed |-> SelectSeq(tracker.completed, LAMBDA id : id # videoId),
   failed |-> Append(tracker.failed, [id |-> videoId, error |-> error])]

markVideoFailed(tracker, videoId, error) ==
  [completed |-> SelectSeq(tracker.completed, LAMBDA id : id # videoId),
   failed |-> Append(SelectSeq(tracker.failed, LAMBDA item : item.id # videoId),
                     [id |-> videoId, error |-> error])]

(***************************************************************************)
(* main: the batches                                                        *)
(***************************************************************************)
Min(a, b) == IF a < b THEN a ELSE b

(* for (let i = 0; i < videos.length; i += concurrency)                    *)
(*   videoBatches.push(videos.slice(i, i + concurrency))                    *)
RECURSIVE BatchesFrom(_, _, _)
BatchesFrom(videos, i, concurrency) ==
  IF i < Len(videos)
  THEN <<SubSeq(videos, i + 1, Min(i + concurrency, Len(videos)))>>
         \o BatchesFrom(videos, i + concurrency, concurrency)
  ELSE <<>>

videoBatches == BatchesFrom(Videos, 0, env.concurrency)

BatchOf(k) == {videoBatches[k][j] : j \in 1..Len(videoBatches[k])}

Running == main.pc = "running"

Settled(v) == pv[v].pc \in {"skipped", "done"}

(***************************************************************************)
(* processVideo                                                             *)
(***************************************************************************)
IdleVideo ==
  [pc |-> "ready", marks |-> <<>>, error |-> <<>>, failedStep |-> "",
   segments |-> <<>>, segmentPaths |-> <<>>, summary |-> <<>>,
   pending |-> EmptyTracker]

(* a start of processVideo that never skips *)
EnterProcessVideoNoSkip(v) ==
  [pv[v] EXCEPT !.pc = "ensureDir"]

(* the synchronous start of processVideo: the skip test *)
EnterProcessVideo(v) ==
  IF ~env.force /\ Includes(progress.completed, v)
  THEN [pv[v] EXCEPT !.pc = "skipped"]
  ELSE [pv[v] EXCEPT !.pc = "ensureDir"]

(* a failure that records nothing in the tracker *)
PVFailNoMark(v, step, prefix, message) ==
  /\ pv' = [pv EXCEPT ![v].pc = "done", ![v].failedStep = step,
                      ![v].error = <<prefix>> \o message]
  /\ UNCHANGED <<progress, main>>

(* a failure that is rethrown whatever the mode *)
PVFailRethrow(v, step, prefix, message) ==
  /\ pv' = [pv EXCEPT ![v].pc = "rejected", ![v].failedStep = step,
                      ![v].error = message]
  /\ main' = [main EXCEPT !.pc = "exited"]
  /\ UNCHANGED progress

(* a step of processVideo threw: the inner catch wraps the error (or, in   *)
(* development mode, rethrows it), the outer catch calls markVideoFailed    *)
(* (or, in development mode, rethrows: Promise.all rejects, main rethrows   *)
(* and main().catch ends the process)                                       *)
PVFail(v, step, prefix, message) ==
  IF env.devMode
  THEN /\ pv' = [pv EXCEPT ![v].pc = "rejected", ![v].failedStep = step,
                           ![v].error = message]
       /\ main' = [main EXCEPT !.pc = "exited"]
       /\ UNCHANGED progress
  ELSE /\ progress' = markVideoFailed(progress, v, <<prefix>> \o message)
       /\ pv' = [pv EXCEPT ![v].pc = "saving", ![v].failedStep = step,
                           ![v].error = <<prefix>> \o message,
                           ![v].marks = Append(@, [kind |-> "failed",
                                                   error |-> <<prefix>> \o message]),
                           ![v].pending = progress']
       /\ UNCHANGED main

(* await fs.ensureDir(videoOutputDir) *)
PVEnsureDir(v) ==
  /\ Running
  /\ pv[v].pc = "ensureDir"
  /\ \/ /\ pv' = [pv EXCEPT ![v].pc = "download"]
        /\ UNCHANGED <<progress, main>>
     \/ PVFail(v, "ensureDir", "Error creating output directory: ", <<"EACCES">>)
  /\ UNCHANGED <<files, sv, progressFile, env, unit>>

(* videoPath = await downloadVideo(video.url, config.tempDir) *)
PVDownload(v) ==
  /\ Running
  /\ pv[v].pc = "download"
  /\ \/ /\ pv' = [pv EXCEPT ![v].pc = "segments"]
        /\ UNCHANGED <<progress, main>>
     \/ PVFail(v, "download", "Error downloading video: ", <<"network">>)
  /\ UNCHANGED <<files, sv, progressFile, env, unit>>

(* the detected chapters taken as they are, even when there are none *)
DetermineSegmentsNoSubstitute(configured, info) ==
  IF configured = AutoSegments THEN detectVideoChapters(info) ELSE configured

(* video.segments === 'auto': the detected chapters, or one segment for    *)
(* the entire video when none was detected; else the configured segments    *)
DetermineSegments(configured, info) ==
  IF configured = AutoSegments
  THEN IF Len(detectVideoChapters(info)) = 0 THEN <<FullVideo>>
       ELSE detectVideoChapters(info)
  ELSE configured

(* the segments of the video, then the call of segmentVideo with the       *)
(* output directory of the video and no options                             *)
PVDetermineSegments(v) ==
  /\ Running
  /\ pv[v].pc = "segments"
  /\ \/ \E info \in ChapterInfos :
          LET segments == DetermineSegments(VideoConfigs[v].segments, info)
          IN  /\ pv' = [pv EXCEPT ![v].pc = "segmenting", ![v].segments = segments]
              /\ sv' = [sv EXCEPT ![v] =
                          EnterSegmentVideo(v, segments, DefaultOptions, "out/" \o v)]
              /\ UNCHANGED <<progress, main>>
     \/ /\ VideoConfigs[v].segments = AutoSegments
        /\ PVFail(v, "segments", "Error determining segments: ", <<"chapters">>)
        /\ UNCHANGED sv
  /\ UNCHANGED <<files, progressFile, env, unit>>

(* a call whose returned paths are dropped *)
PVSegmentedNoPaths(v) ==
  /\ Running
  /\ pv[v].pc = "segmenting"
  /\ sv[v].pc = "returned"
  /\ pv' = [pv EXCEPT ![v].pc = "summary"]
  /\ UNCHANGED <<files, sv, progress, progressFile, main, env, unit>>

(* segmentVideo returned: segmentPaths *)
PVSegmented(v) ==
  /\ Running
  /\ pv[v].pc = "segmenting"
  /\ sv[v].pc = "returned"
  /\ pv' = [pv EXCEPT ![v].pc = "summary", ![v].segmentPaths = sv[v].outputPaths]
  /\ UNCHANGED <<files, sv, progress, progressFile, main, env, unit>>

(* segmentVideo threw *)
PVSegmentFailed(v) ==
  /\ Running
  /\ pv[v].pc = "segmenting"
  /\ sv[v].pc = "thrown"
  /\ PVFail(v, "segmentVideo", "Error processing segments: ", sv[v].error)
  /\ UNCHANGED <<files, sv, progressFile, env, unit>>

(* path.basename *)
Basename(path) == Tail(path)

SummaryOf(v) ==
  [k \in 1..Len(pv[v].segments) |->
     [name |-> safeGet(pv[v].segments[k], "name",
                       <<"S", "e", "g", "m", "e", "n", "t", " ">> \o NatToString(k)),
      start |-> safeGet(pv[v].segments[k], "start", T000000),
      end |-> safeGet(pv[v].segments[k], "end", T000000),
      file |-> IF k <= Len(pv[v].segmentPaths)
               THEN Basename(pv[v].segmentPaths[k]) ELSE <<>>]]

(* summary.json is written, then markVideoCompleted: an id already in      *)
(* completed returns at once, any other is pushed and the tracker is saved  *)
PVSummary(v) ==
  /\ Running
  /\ pv[v].pc = "summary"
  /\ \/ /\ progress' = markVideoCompleted(progress, v)
        /\ pv' = [pv EXCEPT ![v].pc = IF Includes(progress.completed, v)
                                      THEN "done" ELSE "saving",
                            ![v].summary = SummaryOf(v),
                            ![v].marks = Append(@, [kind |-> "completed",
                                                    error |-> <<>>]),
                            ![v].pending = progress']
        /\ UNCHANGED main
     \/ PVFail(v, "summary", "Error creating summary file: ", <<"ENOSPC">>)
  /\ UNCHANGED <<files, sv, progressFile, env, unit>>

(* saveProgress: the write of the tracker ends, or fails and is logged *)
PVSaved(v) ==
  /\ Running
  /\ pv[v].pc = "saving"
  /\ \E ok \in BOOLEAN :
       progressFile' = IF ok THEN pv[v].pending ELSE progressFile
  /\ pv' = [pv EXCEPT ![v].pc = "done"]
  /\ UNCHANGED <<files, sv, progress, main, env, unit>>

(* a loop that maps the next batch without awaiting the one before *)
MainStartBatchNoWait ==
  /\ Running
  /\ main.batch < Len(videoBatches)
  /\ pv' = [v \in DOMAIN pv |->
              IF v \in BatchOf(main.batch + 1) THEN EnterProcessVideo(v) ELSE pv[v]]
  /\ main' = [main EXCEPT !.batch = @ + 1]
  /\ UNCHANGED <<files, sv, progress, progressFile, env, unit>>

(* await Promise.all(batch.map((video) => processVideo(...))) for the next *)
(* batch, once the promises of the batch before are all resolved            *)
MainStartBatch ==
  /\ Running
  /\ main.batch < Len(videoBatches)
  /\ \A k \in 1..main.batch : \A v \in BatchOf(k) : Settled(v)
  /\ pv' = [v \in DOMAIN pv |->
              IF v \in BatchOf(main.batch + 1) THEN EnterProcessVideo(v) ELSE pv[v]]
  /\ main' = [main EXCEPT !.batch = @ + 1]
  /\ UNCHANGED <<files, sv, progress, progressFile, env, unit>>

(* 'All videos processed successfully' *)
MainFinish ==
  /\ Running
  /\ main.batch = Len(videoBatches)
  /\ \A v \in VideoIds : Settled(v)
  /\ main' = [main EXCEPT !.pc = "finished"]
  /\ UNCHANGED <<files, sv, pv, progress, progressFile, env, unit>>

(***************************************************************************)
(* Specification of one run of main over the videos: the tracker is the    *)
(* one initProgressTracker loaded, the output directories start empty.      *)
(***************************************************************************)
LoadedTrackers ==
  {EmptyTracker,
   [completed |-> <<"v1">>, failed |-> <<>>],
   [completed |-> <<>>, failed |-> <<[id |-> "v1", error |-> <<"old">>]>>]}

InitPV ==
  /\ files = <<>>
  /\ sv = [c \in VideoIds |-> IdleCall]
  /\ pv = [v \in VideoIds |-> IdleVideo]
  /\ progress \in LoadedTrackers
  /\ progressFile = progress
  /\ main = [pc |-> "running", batch |-> 0]
  /\ env \in [devMode : BOOLEAN, force : BOOLEAN, concurrency : {1, 2}]
  /\ unit = NoUnit

NextPV ==
  \/ MainStartBatch
  \/ MainFinish
  \/ \E v \in VideoIds : PVEnsureDir(v)
  \/ \E v \in VideoIds : PVDownload(v)
  \/ \E v \in VideoIds : PVDetermineSegments(v)
  \/ \E v \in VideoIds : PVSegmented(v)
  \/ \E v \in VideoIds : PVSegmentFailed(v)
  \/ \E v \in VideoIds : PVSummary(v)
  \/ \E v \in VideoIds : PVSaved(v)
  \/ \E v \in VideoIds : Running /\ SegReturn(v)
  \/ \E v \in VideoIds : Running /\ SegExists(v)
  \/ \E v \in VideoIds : Running /\ SegStartCopy(v)
  \/ \E v \in VideoIds : Running /\ ToolEnd(v)
  \/ \E v \in VideoIds : Running /\ CopyError(v)
  \/ \E v \in VideoIds : Running /\ EncodeError(v)

SpecPV == InitPV /\ [][NextPV]_vars

(***************************************************************************)
(* Properties of processVideo                                               *)
(***************************************************************************)
OutcomeKnown(v) == pv[v].pc \in {"saving", "done", "rejected"}

AllStepsSucceeded(v) ==
  /\ pv[v].failedStep = ""
  /\ sv[v].pc = "returned"
  /\ pv[v].summary # <<>>

(* the mark calls a video must have got once its outcome is known *)
MarkedOnce(v) ==
  /\ Len(pv[v].marks) = 1
  /\ pv[v].marks[1].kind = "completed" <=> AllStepsSucceeded(v)
  /\ pv[v].marks[1].kind = "failed" =>
       /\ pv[v].failedStep # ""
       /\ pv[v].marks[1].error = pv[v].error

(* C10 as stated: in every configuration a video that is not skipped gets  *)
(* exactly one mark call when its outcome is known, completed when every    *)
(* step succeeded and failed with the error text otherwise.                 *)
ExactlyOneMarkAlways ==
  \A v \in DOMAIN pv :
    /\ OutcomeKnown(v) => MarkedOnce(v)
    /\ ~OutcomeKnown(v) => pv[v].marks = <<>>

(* C10 amended: the same outside development mode; in development mode a   *)
(* video that succeeded gets markVideoCompleted once and a video that       *)
(* failed gets no mark at all.                                              *)
ExactlyOneMarkOutsideDevMode ==
  \A v \in DOMAIN pv :
    /\ ~OutcomeKnown(v) => pv[v].marks = <<>>
    /\ (OutcomeKnown(v) /\ pv[v].pc # "rejected") => MarkedOnce(v)
    /\ pv[v].pc = "rejected" => (env.devMode /\ pv[v].marks = <<>>)
    /\ (OutcomeKnown(v) /\ ~env.devMode) => pv[v].pc # "rejected"

ExactlyOneMarkWitness ==
  /\ ~env.devMode
  /\ pv["v1"].pc = "done"
  /\ pv["v1"].marks = <<[kind |-> "completed", error |-> <<>>]>>
  /\ pv["v2"].pc = "done"
  /\ Len(pv["v2"].marks) = 1
  /\ pv["v2"].marks[1].kind = "failed"
  /\ pv["v2"].failedStep = "segmentVideo"

(***************************************************************************)
(* One run of main under the scheduling of the event loop: a callback that *)
(* is due is eventually run, and the tool, the downloads and the file       *)
(* system eventually answer.                                                *)
(***************************************************************************)
(* a first run: nothing recorded yet, no forced reprocessing *)
InitFirstRun ==
  /\ InitPV
  /\ progress = EmptyTracker
  /\ ~env.force

FairSpecPV == InitFirstRun /\ [][NextPV]_vars /\ WF_vars(NextPV)

(* C11 as stated: no failure of a video rejects the batch or ends the      *)
(* process.                                                                 *)
NoFailureEndsTheProcess ==
  /\ main.pc # "exited"
  /\ \A v \in DOMAIN pv : pv[v].pc # "rejected"

(* C11 amended: outside development mode no failure rejects the batch or   *)
(* ends the process, main reaches its end, and there every video is         *)
(* settled, each one that was not skipped with its one mark.                *)
SiblingsContinueOutsideDevMode ==
  /\ [](~env.devMode => NoFailureEndsTheProcess)
  /\ [](main.pc = "finished" =>
          \A v \in DOMAIN pv :
            /\ Settled(v)
            /\ pv[v].pc = "done" => Len(pv[v].marks) = 1)
  /\ (~env.devMode ~> main.pc = "finished")

SiblingsContinueWitness ==
  /\ ~env.devMode
  /\ env.concurrency = 2
  /\ main.pc = "finished"
  /\ pv["v1"].failedStep = "download"
  /\ pv["v1"].marks[1].kind = "failed"
  /\ pv["v2"].marks = <<[kind |-> "completed", error |-> <<>>]>>

(* the videos whose processVideo call has started and has not settled *)
InFlight ==
  {v \in DOMAIN pv : pv[v].pc \notin {"ready", "skipped", "done", "rejected"}}

(* C12: never more than config.concurrency videos are being processed; the *)
(* videos of a batch start together; a video of a later batch has started   *)
(* only when every video of the batches before has settled.                 *)
BatchConcurrencyLimit ==
  /\ Cardinality(InFlight) <= env.concurrency
  /\ \A k \in 1..Len(videoBatches) :
       /\ \A u, v \in BatchOf(k) : (pv[u].pc = "ready") = (pv[v].pc = "ready")
       /\ \A v \in BatchOf(k) :
            pv[v].pc # "ready" =>
              \A j \in 1..(k - 1) : \A u \in BatchOf(j) : Settled(u)

BatchLimitWitness ==
  /\ env.concurrency = 1
  /\ pv["v1"].pc = "done"
  /\ pv["v2"].pc = "segmenting"

(* the outcome of the last mark call of the video is in the tracker t *)
OutcomeIn(t, v) ==
  LET mark == pv[v].marks[Len(pv[v].marks)]
  IN  IF mark.kind = "completed"
      THEN /\ Includes(t.completed, v)
           /\ \A k \in 1..Len(t.failed) : t.failed[k].id # v
      ELSE /\ ~Includes(t.completed, v)
           /\ Includes(t.failed, [id |-> v, error |-> mark.error])

(* C13: once the mark call of a video has returned the progress file holds *)
(* the outcome of that video, and once every video has settled the file     *)
(* equals the tracker in memory and so holds every outcome.                 *)
DurableMarks ==
  /\ \A v \in DOMAIN pv :
       (pv[v].pc = "done" /\ pv[v].marks # <<>>) => OutcomeIn(progressFile, v)
  /\ main.pc = "finished" => progressFile = progress

(***************************************************************************)
(* The tracker on its own: any sequence of mark calls on the tracker that  *)
(* initProgressTracker creates when there is no progress file. A mark      *)
(* changes the tracker before its first await, so the calls of the videos   *)
(* of a batch act on the tracker one after the other.                       *)
(***************************************************************************)
MarkErrors == {<<"old">>, <<"network">>}

(* the call just made, the tracker it was given, and whether it repeats the *)
(* call made right before it                                                *)
MarkCall(fn, videoId, error) ==
  [fn |-> fn, id |-> videoId, error |-> error, before |-> progress,
   repeat |-> /\ unit.fn = fn
              /\ unit.id = videoId
              /\ unit.error = error]

TrackerUnchanged == UNCHANGED <<files, sv, pv, main, env>>

(* await markVideoCompleted(progress, videoId): saveProgress is reached    *)
(* only when the id was not in completed; its write ends or fails           *)
TrackerMarkCompleted(videoId) ==
  /\ progress' = markVideoCompleted(progress, videoId)
  /\ \E ok \in BOOLEAN :
       progressFile' = IF ok /\ ~Includes(progress.completed, videoId)
                       THEN progress' ELSE progressFile
  /\ unit' = MarkCall("markVideoCompleted", videoId, <<>>)
  /\ TrackerUnchanged

(* await markVideoFailed(progress, videoId, error) *)
TrackerMarkFailed(videoId, error) ==
  /\ progress' = markVideoFailed(progress, videoId, error)
  /\ \E ok \in BOOLEAN :
       progressFile' = IF ok THEN progress' ELSE progressFile
  /\ unit' = MarkCall("markVideoFailed", videoId, error)
  /\ TrackerUnchanged

InitTracker ==
  /\ files = <<>>
  /\ sv = [c \in VideoIds |-> IdleCall]
  /\ pv = [v \in VideoIds |-> IdleVideo]
  /\ progress = EmptyTracker
  /\ progressFile = EmptyTracker
  /\ main = [pc |-> "running", batch |-> 0]
  /\ env = [devMode |-> FALSE, force |-> FALSE, concurrency |-> 2]
  /\ unit = [fn |-> "none", id |-> "", error |-> <<>>,
             before |-> EmptyTracker, repeat |-> FALSE]

NextTracker ==
  \/ \E videoId \in VideoIds : TrackerMarkCompleted(videoId)
  \/ \E videoId \in VideoIds : \E error \in MarkErrors :
       TrackerMarkFailed(videoId, error)

SpecTracker == InitTracker /\ [][NextTracker]_vars

(* C14: a mark call that repeats the call made right before it, with the   *)
(* same arguments, leaves the tracker as the first call left it; so does    *)
(* one more call of either operation for any id already marked that way.    *)
MarkIdempotent ==
  /\ unit.repeat => progress = unit.before
  /\ \A videoId \in VideoIds :
       LET once == markVideoCompleted(progress, videoId)
       IN  markVideoCompleted(once, videoId) = once
  /\ \A videoId \in VideoIds : \A error \in MarkErrors :
       LET once == markVideoFailed(progress, videoId, error)
       IN  markVideoFailed(once, videoId, error) = once

MarkIdempotentWitness ==
  /\ unit.repeat
  /\ unit.fn = "markVideoFailed"
  /\ unit.id = "v1"
  /\ progress.failed = <<[id |-> "v2", error |-> <<"old">>],
                         [id |-> "v1", error |-> <<"network">>]>>

(* C15: in the tracker no id is twice in completed, no id has two entries  *)
(* in failed, and no id is in completed and in failed.                      *)
TrackerWellFormed ==
  /\ \A i, j \in 1..Len(progress.completed) :
       i # j => progress.completed[i] # progress.completed[j]
  /\ \A i, j \in 1..Len(progress.failed) :
       i # j => progress.failed[i].id # progress.failed[j].id
  /\ \A i \in 1..Len(progress.completed) : \A j \in 1..Len(progress.failed) :
       progress.completed[i] # progress.failed[j].id

TrackerWellFormedWitness ==
  /\ unit.fn = "markVideoCompleted"
  /\ unit.id = "v1"
  /\ unit.before.failed = <<[id |-> "v1", error |-> <<"old">>],
                            [id |-> "v2", error |-> <<"old">>]>>
  /\ progress = [completed |-> <<"v1">>,
                 failed |-> <<[id |-> "v2", error |-> <<"old">>]>>]

(***************************************************************************)
(* Properties of the skip test of processVideo                              *)
(***************************************************************************)
(* processVideo starts for v in this step *)
Starts(v) == pv[v].pc = "ready" /\ pv'[v].pc # "ready"

(* a start with force off for an id in completed returns at once: nothing  *)
(* but the position of the call changes, and the call stays returned        *)
SkipIsANoOp ==
  \A v \in DOMAIN pv :
    /\ (Starts(v) /\ ~env.force /\ Includes(progress.completed, v)) =>
         /\ pv'[v] = [pv[v] EXCEPT !.pc = "skipped"]
         /\ UNCHANGED <<files, sv, progress, progressFile>>
    /\ pv[v].pc = "skipped" => pv'[v] = pv[v]

(* a skipped video was in completed with force off; it has no download, no *)
(* segmentVideo call, no summary and no mark                                *)
SkippedOnlyWhenCompleted ==
  \A v \in DOMAIN pv :
    pv[v].pc = "skipped" =>
      /\ ~env.force
      /\ Includes(progress.completed, v)
      /\ sv[v] = IdleCall
      /\ pv[v] = [IdleVideo EXCEPT !.pc = "skipped"]

(* C16 as stated: the skip is a no-op, and with force on no video is       *)
(* skipped and every video whose outcome is known has got its mark.         *)
SkipUnlessForced ==
  /\ [][SkipIsANoOp]_vars
  /\ [](SkippedOnlyWhenCompleted)
  /\ [](\A v \in DOMAIN pv :
          (env.force /\ OutcomeKnown(v)) => Len(pv[v].marks) = 1)

(* C16 amended: the same, the mark of a forced video being owed only when  *)
(* its processing succeeded or development mode is off; in development      *)
(* mode a forced video that fails is rejected without a mark.               *)
SkipUnlessForcedOutsideDevMode ==
  /\ [][SkipIsANoOp]_vars
  /\ [](SkippedOnlyWhenCompleted)
  /\ [](\A v \in DOMAIN pv :
          /\ (env.force /\ OutcomeKnown(v) /\ pv[v].pc # "rejected") =>
               Len(pv[v].marks) = 1
          /\ pv[v].pc = "rejected" => (env.devMode /\ pv[v].marks = <<>>))

SkipWitness ==
  /\ ~env.force
  /\ pv["v1"].pc = "skipped"
  /\ pv["v2"].pc = "done"
  /\ progress.completed = <<"v1", "v2">>
  /\ progressFile = progress

(***************************************************************************)
(* The destination of one segment on its own: segmentVideo's lines from    *)
(* safeGet(segment, 'name', ...) to path.join, for a segment at any index   *)
(* with any name of the pool and any format.                                *)
(***************************************************************************)
MaxIndex == 2

(* a missing name, the empty name, names the sanitizer rewrites *)
NamePool ==
  {Null, <<>>, <<"!">>, <<"!", "!", "!">>, <<" ">>, <<"a">>,
   <<"b", ":", " ", "c", "!">>, <<"a", " ", " ", "b">>}

NameInputs ==
  [fn : {"input"},
   segment : [name : NamePool, start : {T000000}, end : {T000200}],
   index : 0..MaxIndex,
   format : Formats,
   path : {<<>>}]

InitNames ==
  /\ files = <<>>
  /\ sv = [c \in {"direct"} |-> IdleCall]
  /\ pv = <<>>
  /\ progress = EmptyTracker
  /\ progressFile = EmptyTracker
  /\ main = [pc |-> "none", batch |-> 0]
  /\ env = [devMode |-> FALSE, force |-> FALSE, concurrency |-> 1]
  /\ unit \in NameInputs

(* name, sanitizedName and outputPath of the segment *)
ComputeOutputPath ==
  /\ unit.fn = "input"
  /\ unit' = [unit EXCEPT !.fn = "outputPath",
                          !.path = OutputPath("out", unit.segment, unit.index,
                                              unit.format)]
  /\ UNCHANGED <<files, sv, pv, progress, progressFile, main, env>>

NextNames == ComputeOutputPath

SpecNames == InitNames /\ [][NextNames]_vars

(* the base name of the destination: the file name without its extension *)
BaseName(path) == SubSeq(path, 2, Len(path) - 1)

(* C17: a segment whose name is missing or empty gets the destination      *)
(* segment_{index + 1}, and never an empty base name.                       *)
PlaceholderForMissingName ==
  (unit.fn = "outputPath" /\ unit.segment.name \in {Null, <<>>}) =>
    /\ BaseName(unit.path) = SegmentPlaceholder(unit.index)
    /\ BaseName(unit.path) # <<>>

(***************************************************************************)
(* Properties of the defaults of a segment's fields                         *)
(***************************************************************************)
T235959 == <<"2", "3", ":", "5", "9", ":", "5", "9">>

TimestampPool == {Null, T000000, T000130, T000200}

EnumOptionSets ==
  [format : {"mp4", "avi"}, quality : {"medium", "ultra"},
   forceEncode : BOOLEAN, audioOnly : BOOLEAN]

EnumSegmentLists == {<<SegIntro>>, <<SegIntro, SegSameName>>}

StartEnumCall(c) ==
  /\ sv[c].pc = "idle"
  /\ \E segments \in EnumSegmentLists, options \in EnumOptionSets :
       sv' = [sv EXCEPT ![c] = EnterSegmentVideo(c, segments, options, "out")]
  /\ UNCHANGED files
  /\ OrchestrationUnchanged

NextEnum ==
  \/ StartEnumCall("direct")
  \/ SegReturn("direct")
  \/ SegExists("direct")
  \/ SegStartForced("direct")
  \/ SegStartCopy("direct")
  \/ ToolEnd("direct")
  \/ CopyError("direct")
  \/ EncodeError("direct")

SpecEnum == Init /\ [][NextEnum]_vars

InvalidEnum(c) ==
  \/ sv[c].options.format \notin Formats
  \/ sv[c].options.quality \notin Qualities

(* C19: a call whose format or quality is not one of the declared values   *)
(* never runs the tool, never accepts or produces a destination and never   *)
(* returns: it can only throw.                                              *)
InvalidEnumFailsFast ==
  \A c \in DOMAIN sv :
    (sv[c].pc # "idle" /\ InvalidEnum(c)) =>
      /\ sv[c].invocations = <<>>
      /\ sv[c].outputPaths = <<>>
      /\ sv[c].pc # "returned"

(***************************************************************************)
(* Properties of audio-only extraction                                      *)
(***************************************************************************)
(* the audio codec of an audio-only output in the format *)
AudioCodecOf(format) ==
  IF format \in {"mp4", "ts"} THEN "-c:a aac" ELSE "-c:a libopus"

(* C20: with audioOnly every run of the tool that produced a segment had   *)
(* the arguments -vn, the audio codec of the format and -b:a 128k.          *)
AudioOnlyDropsVideo ==
  \A c \in DOMAIN sv :
    sv[c].options.audioOnly =>
      \A k \in 1..Len(sv[c].invocations) :
        LET inv == sv[c].invocations[k]
        IN  inv.result = "end" =>
              /\ \E a \in 1..Len(inv.options) : inv.options[a] = "-vn"
              /\ \E a \in 1..Len(inv.options) :
                   inv.options[a] = AudioCodecOf(sv[c].options.format)
              /\ \E a \in 1..Len(inv.options) : inv.options[a] = "-b:a 128k"

(***************************************************************************)
(* Properties of the destinations of one call                               *)
(***************************************************************************)
(* C21: when the first call into the empty directory returns, every        *)
(* segment has its own destination outputDir/<sanitized name><extension>,   *)
(* the destinations are pairwise distinct files that exist, and the tool    *)
(* was run for every segment.                                               *)
OneFilePerSegment ==
  \A c \in DOMAIN sv :
    (sv[c].pc = "returned" /\ sv[c].calls = 1) =>
      /\ Len(sv[c].outputPaths) = Len(sv[c].segments)
      /\ \A i \in Indexes(c) :
           /\ sv[c].outputPaths[i + 1] = PathOf(c, i)
           /\ pathExists(PathOf(c, i))
           /\ InvocationsOf(c, i) # <<>>
      /\ \A i, j \in Indexes(c) : i # j => PathOf(c, i) # PathOf(c, j)

(***************************************************************************)
(* The time conversions on their own: timestampToSeconds (processor),      *)
(* timeToSeconds and secondsToTime (segment tracer), formatSeconds          *)
(* (downloader), applied to timestamps and to whole numbers of seconds.     *)
(***************************************************************************)
(* the longest prefix of digits *)
RECURSIVE DigitPrefix(_)
DigitPrefix(str) ==
  IF str = <<>> \/ Head(str) \notin DigitSet THEN <<>>
  ELSE <<Head(str)>> \o DigitPrefix(Tail(str))

(* parseFloat on the model's alphabet (no sign, no decimal point) *)
ParseFloat(str) ==
  IF DigitPrefix(str) = <<>> THEN NaN ELSE Num(DigitsValue(DigitPrefix(str), 0))

timeToSeconds(timeStr) ==
  LET parts == [i \in 1..Len(SplitColon(timeStr, <<>>)) |->
                  ToNumber(SplitColon(timeStr, <<>>)[i])]
  IN  IF Len(parts) = 3
      THEN NumAdd(NumAdd(NumMul(parts[1], 3600), NumMul(parts[2], 60)), parts[3])
      ELSE IF Len(parts) = 2
           THEN NumAdd(NumMul(parts[1], 60), parts[2])
           ELSE ParseFloat(timeStr)

secondsToTime(seconds) ==
  LET hours == seconds \div 3600
      minutes == (seconds % 3600) \div 60
      secs == seconds % 60
  IN  PadStart2(hours) \o <<":">> \o PadStart2(minutes) \o <<":">> \o PadStart2(secs)

MaxSeconds == 130

(* seconds around the minute, the hour, the day and the hundredth hour *)
LargeSeconds ==
  {3599, 3600, 3661, 35999, 36000, 86399, 86400, 359999, 360000, 363661,
   3600000}

SecondsInputs == 0..MaxSeconds \cup LargeSeconds

TimestampInputs ==
  {T000000, T000130, T235959, <<"9", "0">>, <<"1", ":", "3", "0">>,
   <<"1", "0", "0", ":", "0", "0", ":", "0", "0">>,
   <<"a", "b", "c">>, <<"0", "0", ":", "x", "x", ":", "3", "0">>,
   <<"1", "2", ":", "a", "b">>, <<"1", "2", "a">>,
   <<"1", ":", "2", ":", "3", ":", "4">>}

InitTime ==
  /\ files = <<>>
  /\ sv = [c \in {"direct"} |-> IdleCall]
  /\ pv = <<>>
  /\ progress = EmptyTracker
  /\ progressFile = EmptyTracker
  /\ main = [pc |-> "none", batch |-> 0]
  /\ env = [devMode |-> FALSE, force |-> FALSE, concurrency |-> 1]
  /\ unit \in {[fn |-> "timestamp", timestamp |-> t] : t \in TimestampInputs}
        \cup {[fn |-> "seconds", seconds |-> x] : x \in SecondsInputs}

UnitOnly == UNCHANGED <<files, sv, pv, progress, progressFile, main, env>>

(* the parsers return: neither has a throw statement *)
ParseTimestamp ==
  /\ unit.fn = "timestamp"
  /\ unit' = [fn |-> "timestampToSeconds", timestamp |-> unit.timestamp,
              raised |-> FALSE,
              result |-> timestampToSeconds(unit.timestamp),
              traced |-> timeToSeconds(unit.timestamp)]
  /\ UnitOnly

FormatSeconds ==
  /\ unit.fn = "seconds"
  /\ unit' = [fn |-> "formatSeconds", seconds |-> unit.seconds,
              timestamp |-> formatSeconds(unit.seconds),
              traced |-> secondsToTime(unit.seconds)]
  /\ UnitOnly

ParseFormatted ==
  /\ unit.fn = "formatSeconds"
  /\ unit' = [fn |-> "roundTrip", seconds |-> unit.seconds,
              timestamp |-> unit.timestamp,
              result |-> timestampToSeconds(unit.timestamp),
              traced |-> timeToSeconds(unit.traced)]
  /\ UnitOnly

NextTime ==
  \/ ParseTimestamp
  \/ FormatSeconds
  \/ ParseFormatted

SpecTime == InitTime /\ [][NextTime]_vars

(* some ':'-separated part of the timestamp is not a number for Number() *)
HasNonNumericPart(timestamp) ==
  \E i \in 1..Len(SplitColon(timestamp, <<>>)) :
    ToNumber(SplitColon(timestamp, <<>>)[i]).nan

(* C22: parsing a timestamp with a part that is not numeric fails, and     *)
(* parsing never yields NaN.                                                *)
ParseErrorOnNonNumeric ==
  unit.fn = "timestampToSeconds" =>
    /\ HasNonNumericPart(unit.timestamp) => unit.raised
    /\ ~unit.raised => ~unit.result.nan

(* C23: a whole number of seconds formatted as HH:MM:SS and parsed back is *)
(* the same number, for both pairs of conversions, also from 100 hours on   *)
(* where the hours take three digits.                                       *)
TimeRoundTrip ==
  unit.fn = "roundTrip" =>
    /\ unit.result = Num(unit.seconds)
    /\ unit.traced = Num(unit.seconds)
    /\ Len(unit.timestamp) >= 8

TimeRoundTripWitness ==
  /\ unit.fn = "roundTrip"
  /\ unit.seconds = 363661
  /\ unit.timestamp = <<"1", "0", "1", ":", "0", "1", ":", "0", "1">>
  /\ unit.result = Num(363661)

(***************************************************************************)
(* The segments of a video with segments 'auto', for any chapter list the  *)
(* video service answers with: the step of processVideo that determines     *)
(* the segments handed to segmentVideo, on its own.                         *)
(***************************************************************************)
MaxChapters == 2

ChapterPool ==
  [title : {Null, <<"a">>},
   start_time : {NullObj, Num(0), Num(30)},
   end_time : {NullObj, Num(60)}]

ChapterInfoPool ==
  [chapters : UNION {[1..n -> ChapterPool] : n \in 0..MaxChapters},
   lengthSeconds : {<<"1", "2", "0">>}]

InitChapters ==
  /\ files = <<>>
  /\ sv = [c \in {"direct"} |-> IdleCall]
  /\ pv = <<>>
  /\ progress = EmptyTracker
  /\ progressFile = EmptyTracker
  /\ main = [pc |-> "none", batch |-> 0]
  /\ env = [devMode |-> FALSE, force |-> FALSE, concurrency |-> 1]
  /\ unit \in {[fn |-> "info", info |-> info] : info \in ChapterInfoPool}

AutoDetermineSegments ==
  /\ unit.fn = "info"
  /\ unit' = [fn |-> "determineSegments", info |-> unit.info,
              segments |-> DetermineSegments(AutoSegments, unit.info)]
  /\ UnitOnly

NextChapters == AutoDetermineSegments

SpecChapters == InitChapters /\ [][NextChapters]_vars

StrategyOf(inv) == IF inv.step = "copy" THEN "copy" ELSE "encode"

(* the strategies the fixed text of the error message names *)
NamedStrategies(error) ==
  IF error # <<>> /\ error[1] = "Error encoding segment: " THEN {"encode"}
  ELSE {}

(* C25: the error of a call that failed at a segment names every strategy  *)
(* that was run for that segment and ends with the error text of the last   *)
(* run of the tool.                                                         *)
TerminalErrorNamesStrategies ==
  \A c \in DOMAIN sv :
    sv[c].pc = "thrown" =>
      LET tried == InvocationsOf(c, sv[c].index)
      IN  /\ {StrategyOf(tried[k]) : k \in 1..Len(tried)}
               \subseteq NamedStrategies(sv[c].error)
          /\ sv[c].error # <<>>
          /\ sv[c].error[Len(sv[c].error)] = LastInvocation(c).text

(***************************************************************************)
(* Properties of the order of the runs of the tool                          *)
(***************************************************************************)
(* C26: in one call only the latest run of the tool can be in flight, the  *)
(* runs follow the order of the segments, and a run for a later segment is  *)
(* there only when every run for the segments before has ended or failed.   *)
SequentialInvocations ==
  \A c \in DOMAIN sv :
    LET invs == sv[c].invocations
    IN  /\ Cardinality({k \in 1..Len(invs) : invs[k].result = "running"}) <= 1
        /\ \A k \in 1..Len(invs) :
             /\ invs[k].result = "running" => k = Len(invs)
             /\ \A l \in 1..Len(invs) : k < l => invs[k].index <= invs[l].index
        /\ \A k \in 1..Len(invs) : invs[k].index <= sv[c].index

SequentialWitness ==
  /\ Len(sv["direct"].invocations) = 3
  /\ sv["direct"].invocations[1].index = 0
  /\ sv["direct"].invocations[1].result = "error"
  /\ sv["direct"].invocations[2].step = "fallback"
  /\ sv["direct"].invocations[2].result = "end"
  /\ sv["direct"].invocations[3].index = 1
  /\ sv["direct"].invocations[3].result = "running"

(***************************************************************************)
(* sanitizeFileName on its own, for every string of up to MaxNameLen       *)
(* characters over an alphabet with a letter, a digit, '_', '-', a space    *)
(* and two characters that are neither, and for the documented example.     *)
(***************************************************************************)
MaxNameLen == 3

NameAlphabet == {"a", "1", "_", "-", " ", ":", "!"}

IntroPart1 ==
  <<"I", "n", "t", "r", "o", ":", " ", "P", "a", "r", "t", " ", "1", "!">>

SanitizeInputs ==
  UNION {[1..n -> NameAlphabet] : n \in 0..MaxNameLen} \cup {IntroPart1}

InitSanitize ==
  /\ files = <<>>
  /\ sv = [c \in {"direct"} |-> IdleCall]
  /\ pv = <<>>
  /\ progress = EmptyTracker
  /\ progressFile = EmptyTracker
  /\ main = [pc |-> "none", batch |-> 0]
  /\ env = [devMode |-> FALSE, force |-> FALSE, concurrency |-> 1]
  /\ unit \in {[fn |-> "input", input |-> input, result |-> <<>>, again |-> <<>>] :
                 input \in SanitizeInputs}

Unnamed == <<"u", "n", "n", "a", "m", "e", "d">>

Sanitize ==
  /\ unit.fn = "input"
  /\ unit' = [unit EXCEPT !.fn = "sanitizeFileName",
                          !.result = sanitizeFileName(unit.input, Unnamed)]
  /\ UnitOnly

SanitizeAgain ==
  /\ unit.fn = "sanitizeFileName"
  /\ unit' = [unit EXCEPT !.fn = "sanitizedTwice",
                          !.again = sanitizeFileName(unit.result, Unnamed)]
  /\ UnitOnly

NextSanitize ==
  \/ Sanitize
  \/ SanitizeAgain

SpecSanitize == InitSanitize /\ [][NextSanitize]_vars

(* C27: the result holds only word characters and hyphens; without its     *)
(* underscores it is the input without its underscores, its whitespace and  *)
(* its other characters; a run of whitespace gives one underscore; the      *)
(* example gives Intro_Part_1; sanitizing the result gives the result.      *)
SanitizedToken ==
  /\ unit.fn \in {"sanitizeFileName", "sanitizedTwice"} =>
       /\ \A k \in 1..Len(unit.result) :
            IsWordChar(unit.result[k]) \/ unit.result[k] = "-"
       /\ SelectSeq(unit.result, LAMBDA ch : ch # "_")
            = SelectSeq(unit.input, LAMBDA ch : ch \in {"a", "1", "-"} \cup Letters)
       /\ unit.input = <<" ", " ", "a">> => unit.result = <<"_", "a">>
       /\ unit.input = <<"a", " ", "!">> => unit.result = <<"a", "_">>
       /\ unit.input = IntroPart1 =>
            unit.result = <<"I", "n", "t", "r", "o", "_", "P", "a", "r", "t",
                            "_", "1">>
  /\ unit.fn = "sanitizedTwice" => unit.again = unit.result

SanitizedWitness ==
  /\ unit.fn = "sanitizedTwice"
  /\ unit.input = IntroPart1
  /\ unit.again = <<"I", "n", "t", "r", "o", "_", "P", "a", "r", "t", "_", "1">>

(***************************************************************************)
(* Properties of the arguments of a video encode                            *)
(***************************************************************************)
(* the runs of the tool that encode video: not a copy run, not audio only *)
VideoEncodes(c) ==
  IF sv[c].options.audioOnly THEN <<>>
  ELSE SelectSeq(sv[c].invocations, LAMBDA inv : inv.step # "copy")

(* C28 as stated: every video encode into mp4 or ts has -movflags          *)
(* faststart among its arguments.                                           *)
FaststartForMp4AndTs ==
  \A c \in DOMAIN sv :
    sv[c].options.format \in {"mp4", "ts"} =>
      \A k \in 1..Len(VideoEncodes(c)) :
        HasArg(VideoEncodes(c)[k].options, "-movflags faststart")

(* C28 amended: a video encode has -movflags faststart among its arguments *)
(* exactly when the format is mp4, at every quality; the arguments for ts,  *)
(* mkv and webm do not have it.                                             *)
FaststartForMp4Only ==
  /\ \A quality \in Qualities : \A format \in Formats :
       HasArg(getOutputOptions(format, quality, FALSE, FALSE),
              "-movflags faststart") <=> format = "mp4"
  /\ \A c \in DOMAIN sv :
       \A k \in 1..Len(VideoEncodes(c)) :
         HasArg(VideoEncodes(c)[k].options, "-movflags faststart")
           <=> sv[c].options.format = "mp4"

FaststartWitness ==
  /\ sv["direct"].options.format = "mp4"
  /\ sv["direct"].options.quality = "high"
  /\ ~sv["direct"].options.audioOnly
  /\ sv["direct"].pc = "returned"
  /\ Len(sv["direct"].invocations) = 1
  /\ sv["direct"].invocations[1].step = "forced"
  /\ sv["direct"].invocations[1].result = "end"
  /\ HasArg(sv["direct"].invocations[1].options, "-movflags faststart")

(***************************************************************************)
(* The tracker loaded from an existing progress file: initProgressTracker  *)
(* returns the parsed file as it is, whatever its lists hold.               *)
(***************************************************************************)
MaxLoaded == 2

LoadedEntries == [id : VideoIds, error : MarkErrors]

AnyLoadedTrackers ==
  [completed : UNION {[1..n -> VideoIds] : n \in 0..MaxLoaded},
   failed : UNION {[1..n -> LoadedEntries] : n \in 0..MaxLoaded}]

InitLoadedTracker ==
  /\ files = <<>>
  /\ sv = [c \in VideoIds |-> IdleCall]
  /\ pv = [v \in VideoIds |-> IdleVideo]
  /\ progress \in AnyLoadedTrackers
  /\ progressFile = progress
  /\ main = [pc |-> "running", batch |-> 0]
  /\ env = [devMode |-> FALSE, force |-> TRUE, concurrency |-> 2]
  /\ unit = [fn |-> "none", id |-> "", error |-> <<>>,
             before |-> progress, repeat |-> FALSE]

SpecLoadedTracker == InitLoadedTracker /\ [][NextTracker]_vars

(* the number of entries of the completed list that are the id *)
CountCompleted(videoId) ==
  Len(SelectSeq(progress.completed, LAMBDA id : id = videoId))

(* the number of entries of the failed list that have the id *)
CountFailed(videoId) ==
  Len(SelectSeq(progress.failed, LAMBDA item : item.id = videoId))

(* C29: after markVideoCompleted the id is once in completed and not in    *)
(* failed; after markVideoFailed the id is not in completed and has one     *)
(* entry in failed, with the error of the call.                             *)
MarkOutcome ==
  /\ unit.fn = "markVideoCompleted" =>
       /\ CountCompleted(unit.id) = 1
       /\ CountFailed(unit.id) = 0
  /\ unit.fn = "markVideoFailed" =>
       /\ CountCompleted(unit.id) = 0
       /\ CountFailed(unit.id) = 1
       /\ Includes(progress.failed, [id |-> unit.id, error |-> unit.error])

(***************************************************************************)
(* clear-cache: the script run once on a working directory whose temp/ and *)
(* output/ and whose debug directories hold any of the entries of a pool,   *)
(* with any flags and any answer typed at the prompt.                       *)
(***************************************************************************)
VideoSuffixes ==
  {<<".", "m", "p", "4">>, <<".", "m", "k", "v">>, <<".", "w", "e", "b", "m">>,
   <<".", "t", "s">>}

EndsWith(name, suffix) ==
  /\ Len(name) >= Len(suffix)
  /\ SubSeq(name, Len(name) - Len(suffix) + 1, Len(name)) = suffix

(* file.match(/\.(mp4|mkv|webm|ts)$/) *)
MatchesVideoPattern(name) == \E suffix \in VideoSuffixes : EndsWith(name, suffix)

EntryPool ==
  {[dir |-> "temp", name |-> <<"v", ".", "m", "p", "4">>, isDirectory |-> FALSE],
   [dir |-> "temp", name |-> <<"d", ".", "m", "k", "v">>, isDirectory |-> TRUE],
   [dir |-> "temp", name |-> <<"n", ".", "t", "x", "t">>, isDirectory |-> FALSE],
   [dir |-> "temp", name |-> <<"m", "p", "4">>, isDirectory |-> FALSE],
   [dir |-> "output", name |-> <<"s", ".", "t", "s">>, isDirectory |-> FALSE],
   [dir |-> "output", name |-> <<"s", ".", "t", "s", ".", "b">>, isDirectory |-> FALSE],
   [dir |-> "output", name |-> <<"v", "1">>, isDirectory |-> TRUE],
   [dir |-> "segment-tracer", name |-> <<"t", ".", "l", "o", "g">>, isDirectory |-> FALSE],
   [dir |-> "yt-analyzer", name |-> <<"a", ".", "m", "p", "4">>, isDirectory |-> FALSE]}

Answers == {"y", "Y", "n", ""}

(* answer.toLowerCase() on the answers of the pool *)
ToLowerCase(answer) == IF answer = "Y" THEN "y" ELSE answer

(* deleteFiles(directory, pattern): the entries of the directory that are  *)
(* unlinked, directories being skipped                                      *)
deleteFiles(entries, directory) ==
  {e \in entries : /\ e.dir = directory
                   /\ MatchesVideoPattern(e.name)
                   /\ ~e.isDirectory}

(* deleteDirectory(directory): everything under the directory *)
deleteDirectory(entries, directory) == {e \in entries : e.dir = directory}

(* what main unlinks after the confirmation *)
ToDelete(entries, all) ==
  deleteFiles(entries, "temp") \cup deleteFiles(entries, "output")
    \cup (IF all THEN deleteDirectory(entries, "segment-tracer")
                        \cup deleteDirectory(entries, "yt-analyzer")
          ELSE {})

InitClearCache ==
  /\ files = <<>>
  /\ sv = [c \in {"direct"} |-> IdleCall]
  /\ pv = <<>>
  /\ progress = EmptyTracker
  /\ progressFile = EmptyTracker
  /\ main = [pc |-> "none", batch |-> 0]
  /\ env = [devMode |-> FALSE, force |-> FALSE, concurrency |-> 1]
  /\ unit \in {[fn |-> "clear-cache", pc |-> "start", argv |-> argv,
                 answer |-> answer, initial |-> entries, entries |-> entries] :
                 argv \in [all : BOOLEAN, force : BOOLEAN],
                 answer \in Answers,
                 entries \in SUBSET EntryPool}

(* the entries left when the unlink of those in kept failed *)
Cleared(kept) ==
  (unit.initial \ ToDelete(unit.initial, unit.argv.all)) \cup kept

(* a continuation after the prompt that clears whatever was typed *)
CCAnsweredAnyAnswer ==
  /\ unit.pc = "prompt"
  /\ \E kept \in SUBSET ToDelete(unit.initial, unit.argv.all) :
       unit' = [unit EXCEPT !.pc = "done", !.entries = Cleared(kept)]
  /\ UnitOnly

(* the answer is read: main exits when it is not y, else clears *)
CCAnswered ==
  /\ unit.pc = "prompt"
  /\ IF ToLowerCase(unit.answer) = "y"
     THEN \E kept \in SUBSET ToDelete(unit.initial, unit.argv.all) :
            unit' = [unit EXCEPT !.pc = "done", !.entries = Cleared(kept)]
     ELSE unit' = [unit EXCEPT !.pc = "cancelled"]
  /\ UnitOnly

(* main with --force: no prompt, everything is cleared in one go *)
CCRunForced ==
  /\ unit.pc = "start"
  /\ unit.argv.force
  /\ \E kept \in SUBSET ToDelete(unit.initial, unit.argv.all) :
       unit' = [unit EXCEPT !.pc = "done", !.entries = Cleared(kept)]
  /\ UnitOnly

(* main without --force: the prompt is written and main awaits the answer *)
CCPrompt ==
  /\ unit.pc = "start"
  /\ ~unit.argv.force
  /\ unit' = [unit EXCEPT !.pc = "prompt"]
  /\ UnitOnly

NextClearCache ==
  \/ CCRunForced
  \/ CCPrompt
  \/ CCAnswered

SpecClearCache == InitClearCache /\ [][NextClearCache]_vars

(* the names of the pool that end in .mp4, .mkv, .webm or .ts *)
VideoNames ==
  {<<"v", ".", "m", "p", "4">>, <<"d", ".", "m", "k", "v">>,
   <<"s", ".", "t", "s">>, <<"a", ".", "m", "p", "4">>}

(* C30: an entry is removed only after --force or the answer y (in either  *)
(* case); an entry of a debug directory only with --all; an entry of temp/  *)
(* or output/ only when it is not a directory and its name ends in .mp4,    *)
(* .mkv, .webm or .ts.                                                      *)
ClearCacheGuarded ==
  unit.fn = "clear-cache" =>
    /\ unit.entries \subseteq unit.initial
    /\ unit.entries # unit.initial =>
         (unit.argv.force \/ unit.answer \in {"y", "Y"})
    /\ \A e \in unit.initial \ unit.entries :
         /\ e.dir \in {"segment-tracer", "yt-analyzer"} => unit.argv.all
         /\ e.dir \in {"temp", "output"} =>
              (~e.isDirectory /\ e.name \in VideoNames)
    /\ unit.pc = "cancelled" => unit.entries = unit.initial

ClearCacheWitness ==
  /\ unit.fn = "clear-cache"
  /\ unit.pc = "done"
  /\ ~unit.argv.force
  /\ ~unit.argv.all
  /\ unit.answer = "y"
  /\ unit.initial = EntryPool
  /\ unit.initial \ unit.entries =
       {[dir |-> "temp", name |-> <<"v", ".", "m", "p", "4">>, isDirectory |-> FALSE],
        [dir |-> "output", name |-> <<"s", ".", "t", "s">>, isDirectory |-> FALSE]}

(***************************************************************************)
(* Properties of the completed mark and of summary.json                     *)
(***************************************************************************)
(* segmentVideo of the video returned one path per segment and entry k of  *)
(* the summary holds the name of the destination of segment k               *)
SummaryNamesSegments(v, summary) ==
  /\ sv[v].pc = "returned"
  /\ Len(pv[v].segmentPaths) = Len(pv[v].segments)
  /\ Len(summary) = Len(pv[v].segments)
  /\ \A k \in 1..Len(summary) :
       /\ summary[k].file = Basename(PathOf(v, k - 1))
       /\ summary[k].file # <<>>
       /\ pathExists(PathOf(v, k - 1))

(* C31: a video id is added to progress.completed only by the call of      *)
(* processVideo for that video in which segmentVideo returned one path per  *)
(* segment and summary.json was written; no video has a completed mark      *)
(* after one of its steps failed; entry i of a written summary names the    *)
(* destination file of segment i.                                           *)
CompletedOnlyAfterSummary ==
  /\ [][\A v \in DOMAIN pv :
          (~Includes(progress.completed, v) /\ Includes(progress'.completed, v)) =>
            /\ pv[v].pc = "summary"
            /\ pv[v].failedStep = ""
            /\ pv'[v].failedStep = ""
            /\ SummaryNamesSegments(v, pv'[v].summary)]_vars
  /\ [](\A v \in DOMAIN pv :
          /\ pv[v].failedStep # "" =>
               \A k \in 1..Len(pv[v].marks) : pv[v].marks[k].kind # "completed"
          /\ pv[v].summary # <<>> => SummaryNamesSegments(v, pv[v].summary))

CompletedOnlyAfterSummaryWitness ==
  /\ "v2" \in DOMAIN pv
  /\ pv["v2"].pc = "saving"
  /\ pv["v2"].marks = <<[kind |-> "completed", error |-> <<>>]>>
  /\ Includes(progress.completed, "v2")
  /\ Len(pv["v2"].summary) = 2
  /\ pv["v2"].summary[1].file = <<"C", "h", "a", "p", "t", "e", "r", "_", "1", ".mp4">>
  /\ pv["v2"].summary[2].file = <<"b", ".mp4">>

(***************************************************************************)
(* progress.json across runs: every run of main starts with                 *)
(* initProgressTracker, then each video of the list is skipped or gets the  *)
(* one mark of its processVideo call, saved as the mark is made. pv[v].marks *)
(* keeps the marks of the video over all the runs.                          *)
(***************************************************************************)
MaxRuns == 2

InitRuns ==
  /\ files = <<>>
  /\ sv = [c \in VideoIds |-> IdleCall]
  /\ pv = [v \in VideoIds |-> [IdleVideo EXCEPT !.pc = "done"]]
  /\ progress = EmptyTracker
  /\ progressFile = EmptyTracker
  /\ main = [pc |-> "exited", batch |-> 0, run |-> 0]
  /\ env \in [devMode : {FALSE}, force : BOOLEAN, concurrency : {2}]
  /\ unit = NoUnit

RunsUnchanged == UNCHANGED <<files, sv, env, unit>>

(* const progress = await initProgressTracker(): the content of the file,  *)
(* or an empty tracker when reading it throws; the videos of the list are   *)
(* then started                                                             *)
RunInit ==
  /\ main.pc = "exited"
  /\ main.run < MaxRuns
  /\ \E readOk \in BOOLEAN :
       progress' = IF readOk THEN progressFile ELSE EmptyTracker
  /\ pv' = [v \in DOMAIN pv |-> [pv[v] EXCEPT !.pc = "ready"]]
  /\ main' = [pc |-> "running", batch |-> 0, run |-> main.run + 1]
  /\ UNCHANGED progressFile
  /\ RunsUnchanged

(* processVideo returns at its skip test *)
RunSkip(v) ==
  /\ Running
  /\ pv[v].pc = "ready"
  /\ EnterProcessVideo(v).pc = "skipped"
  /\ pv' = [pv EXCEPT ![v].pc = "skipped"]
  /\ UNCHANGED <<progress, progressFile, main>>
  /\ RunsUnchanged

(* processVideo succeeded: markVideoCompleted and its saveProgress *)
RunMarkCompleted(v) ==
  /\ Running
  /\ pv[v].pc = "ready"
  /\ EnterProcessVideo(v).pc # "skipped"
  /\ progress' = markVideoCompleted(progress, v)
  /\ \E ok \in BOOLEAN :
       progressFile' = IF ok /\ ~Includes(progress.completed, v)
                       THEN progress' ELSE progressFile
  /\ pv' = [pv EXCEPT ![v].pc = "done",
                      ![v].marks = Append(@, [kind |-> "completed", error |-> <<>>])]
  /\ UNCHANGED main
  /\ RunsUnchanged

(* processVideo failed: markVideoFailed and its saveProgress *)
RunMarkFailed(v, error) ==
  /\ Running
  /\ pv[v].pc = "ready"
  /\ EnterProcessVideo(v).pc # "skipped"
  /\ progress' = markVideoFailed(progress, v, error)
  /\ \E ok \in BOOLEAN :
       progressFile' = IF ok THEN progress' ELSE progressFile
  /\ pv' = [pv EXCEPT ![v].pc = "done",
                      ![v].marks = Append(@, [kind |-> "failed", error |-> error])]
  /\ UNCHANGED main
  /\ RunsUnchanged

(* the run ends once every video has settled *)
RunExit ==
  /\ Running
  /\ \A v \in VideoIds : Settled(v)
  /\ main' = [main EXCEPT !.pc = "exited"]
  /\ UNCHANGED <<pv, progress, progressFile>>
  /\ RunsUnchanged

NextRuns ==
  \/ RunInit
  \/ RunExit
  \/ \E v \in VideoIds : RunSkip(v)
  \/ \E v \in VideoIds : RunMarkCompleted(v)
  \/ \E v \in VideoIds : \E error \in MarkErrors : RunMarkFailed(v, error)

SpecRuns == InitRuns /\ [][NextRuns]_vars

(* C32: an id that is in the completed list of progress.json leaves it     *)
(* only if markVideoFailed was called for that id; no step of a later run   *)
(* drops it otherwise, also when the file could not be read at start-up.    *)
PersistedCompletedMonotone ==
  [][\A id \in VideoIds :
       (Includes(progressFile.completed, id) /\ ~Includes(progressFile'.completed, id))
         => \E k \in 1..Len(pv'[id].marks) : pv'[id].marks[k].kind = "failed"]_vars

(***************************************************************************)
(* main's batching on its own: the loop that builds videoBatches, run step *)
(* by step for any value parseInt can give config.concurrency, then the     *)
(* loop over the batches that hands each video to processVideo.             *)
(***************************************************************************)
MaxVideos == 3

(* the loop never ends for some values: the batches built are followed up  *)
(* to this many                                                             *)
MaxBatches == MaxVideos + 2

VideoIdPool == {"v1", "v2", "v3"}

(* the lists of data/videos.json: distinct ids *)
VideoLists ==
  {list \in UNION {[1..n -> VideoIdPool] : n \in 0..MaxVideos} :
     \A j, k \in 1..Len(list) : j # k => list[j] # list[k]}

(* parseInt(options.concurrency, 10): an integer, or NaN for text that     *)
(* does not start with a number                                             *)
ConcurrencyValues == {Num(n) : n \in -1..MaxVideos} \cup {NaN}

(* a relative index of Array.prototype.slice: NaN is 0, a negative index   *)
(* counts from the end, and the result is clamped to 0..len                 *)
SliceIndex(k, len) ==
  IF k.nan THEN 0
  ELSE IF k.v < 0 THEN (IF len + k.v < 0 THEN 0 ELSE len + k.v)
  ELSE Min(k.v, len)

(* videos.slice(start, end) *)
Slice(list, start, end) ==
  SubSeq(list, SliceIndex(start, Len(list)) + 1, SliceIndex(end, Len(list)))

(* i < videos.length: false when i is NaN *)
NumLess(a, n) == ~a.nan /\ a.v < n

InitBatching ==
  /\ files = <<>>
  /\ sv = <<>>
  /\ pv = <<>>
  /\ progress = EmptyTracker
  /\ progressFile = EmptyTracker
  /\ main = [pc |-> "none", batch |-> 0]
  /\ env = [devMode |-> FALSE, force |-> FALSE, concurrency |-> 1]
  /\ unit \in [fn : {"batching"}, pc : {"for"}, videos : VideoLists,
               concurrency : ConcurrencyValues, i : {Num(0)},
               videoBatches : {<<>>}, batchIndex : {0}, processed : {<<>>}]

(* one iteration of for (let i = 0; i < videos.length;                     *)
(*   i += config.concurrency) videoBatches.push(videos.slice(i, i + c))     *)
BatchLoopStep ==
  /\ unit.fn = "batching"
  /\ unit.pc = "for"
  /\ NumLess(unit.i, Len(unit.videos))
  /\ Len(unit.videoBatches) < MaxBatches
  /\ unit' = [unit EXCEPT
                !.videoBatches =
                   Append(@, Slice(unit.videos, unit.i,
                                   NumAdd(unit.i, unit.concurrency))),
                !.i = NumAdd(unit.i, unit.concurrency)]
  /\ UnitOnly

(* the loop test fails: the batches are complete *)
BatchLoopEnd ==
  /\ unit.fn = "batching"
  /\ unit.pc = "for"
  /\ ~NumLess(unit.i, Len(unit.videos))
  /\ unit' = [unit EXCEPT !.pc = "batches"]
  /\ UnitOnly

(* await Promise.all(batch.map((video) => processVideo(...))) for the next *)
(* batch                                                                    *)
BatchProcess ==
  /\ unit.fn = "batching"
  /\ unit.pc = "batches"
  /\ unit.batchIndex < Len(unit.videoBatches)
  /\ unit' = [unit EXCEPT
                !.processed = @ \o unit.videoBatches[unit.batchIndex + 1],
                !.batchIndex = @ + 1]
  /\ UnitOnly

(* 'All videos processed successfully' *)
BatchesDone ==
  /\ unit.fn = "batching"
  /\ unit.pc = "batches"
  /\ unit.batchIndex = Len(unit.videoBatches)
  /\ unit' = [unit EXCEPT !.pc = "done"]
  /\ UnitOnly

NextBatching ==
  \/ BatchLoopStep
  \/ BatchLoopEnd
  \/ BatchProcess
  \/ BatchesDone

SpecBatching == InitBatching /\ [][NextBatching]_vars

(* C33: for every concurrency value the loop ends: each batch it builds    *)
(* takes at least one video, so there are never more batches than videos;   *)
(* the batches are consecutive, and when main is through them every video   *)
(* was passed to processVideo once, in input order.                         *)
BatchesPartitionVideos ==
  unit.fn = "batching" =>
    /\ Len(unit.videoBatches) <= Len(unit.videos)
    /\ \A k \in 1..Len(unit.videoBatches) : unit.videoBatches[k] # <<>>
    /\ unit.pc = "done" => unit.processed = unit.videos

(***************************************************************************)
(* downloader: downloadVideo for the two videos of a batch, each called up *)
(* to MaxDownloads times (a later run calls it again). `files` holds the    *)
(* files of the temp directory.                                             *)
(***************************************************************************)
MaxDownloads == 2

(* info.videoDetails.title of a video: two of the titles differ only in a  *)
(* character the sanitizer removes                                          *)
TitlePool == {<<"a">>, <<"a", "!">>, <<"b">>}

(* `video_${Date.now()}`, the name used when the title is undefined *)
TitlePlaceholder == <<"v", "i", "d", "e", "o", "_", "1">>

(* path.join(outputPath, `${sanitizedTitle}.mp4`) *)
DownloadPath(title) ==
  <<"temp">> \o sanitizeFileName(title, TitlePlaceholder) \o <<".mp4">>

IdleDownload(title) ==
  [pc |-> "idle", title |-> title, filePath |-> <<>>, exists |-> FALSE,
   calls |-> 0, cached |-> FALSE]

InitDownload ==
  /\ files = <<>>
  /\ sv = <<>>
  /\ pv = <<>>
  /\ progress = EmptyTracker
  /\ progressFile = EmptyTracker
  /\ main = [pc |-> "none", batch |-> 0]
  /\ env = [devMode |-> FALSE, force |-> FALSE, concurrency |-> 2]
  /\ \E titles \in [VideoIds -> TitlePool] :
       unit = [fn |-> "downloadVideo",
               dl |-> [v \in VideoIds |-> IdleDownload(titles[v])]]

DownloadUnchanged == UNCHANGED <<sv, pv, progress, progressFile, main, env>>

(* downloadVideo(video.url, config.tempDir) is called: validateURL,        *)
(* ensureDir, and the request of ytdl.getInfo                               *)
DlCall(v) ==
  /\ unit.dl[v].pc \in {"idle", "resolved", "rejected"}
  /\ unit.dl[v].calls < MaxDownloads
  /\ unit' = [unit EXCEPT !.dl[v].pc = "getInfo", !.dl[v].calls = @ + 1,
                          !.dl[v].cached = FALSE, !.dl[v].filePath = <<>>]
  /\ UNCHANGED files
  /\ DownloadUnchanged

(* getInfo answered: filePath is computed and fs.pathExists(filePath) is   *)
(* asked; or getInfo threw                                                  *)
DlInfo(v) ==
  /\ unit.dl[v].pc = "getInfo"
  /\ \/ unit' = [unit EXCEPT !.dl[v].pc = "pathExists",
                             !.dl[v].filePath = DownloadPath(unit.dl[v].title),
                             !.dl[v].exists =
                                pathExists(DownloadPath(unit.dl[v].title))]
     \/ unit' = [unit EXCEPT !.dl[v].pc = "rejected"]
  /\ UNCHANGED files
  /\ DownloadUnchanged

(* the answer of pathExists was true: 'Video already downloaded', the path *)
(* is returned                                                              *)
DlExists(v) ==
  /\ unit.dl[v].pc = "pathExists"
  /\ unit.dl[v].exists
  /\ unit' = [unit EXCEPT !.dl[v].pc = "resolved", !.dl[v].cached = TRUE]
  /\ UNCHANGED files
  /\ DownloadUnchanged

(* the answer was false: fs.createWriteStream(filePath) creates or         *)
(* truncates the file and the video stream is piped into it                 *)
DlOpen(v) ==
  /\ unit.dl[v].pc = "pathExists"
  /\ ~unit.dl[v].exists
  /\ files' = [p \in DOMAIN files \cup {unit.dl[v].filePath} |->
                 IF p = unit.dl[v].filePath THEN "partial" ELSE files[p]]
  /\ unit' = [unit EXCEPT !.dl[v].pc = "writing"]
  /\ DownloadUnchanged

(* fileStream.on('finish'): resolve(filePath) *)
DlFinish(v) ==
  /\ unit.dl[v].pc = "writing"
  /\ files' = [files EXCEPT ![unit.dl[v].filePath] = "complete"]
  /\ unit' = [unit EXCEPT !.dl[v].pc = "resolved"]
  /\ DownloadUnchanged

(* videoStream.on('error') or fileStream.on('error'): reject(err); what    *)
(* was written stays in the file                                            *)
DlError(v) ==
  /\ unit.dl[v].pc = "writing"
  /\ files' = [files EXCEPT ![unit.dl[v].filePath] = "partial"]
  /\ unit' = [unit EXCEPT !.dl[v].pc = "rejected"]
  /\ DownloadUnchanged

NextDownload ==
  \/ \E v \in VideoIds : DlCall(v)
  \/ \E v \in VideoIds : DlInfo(v)
  \/ \E v \in VideoIds : DlExists(v)
  \/ \E v \in VideoIds : DlOpen(v)
  \/ \E v \in VideoIds : DlFinish(v)
  \/ \E v \in VideoIds : DlError(v)

SpecDownload == InitDownload /\ [][NextDownload]_vars

(* the videos whose download is writing to the path *)
WritersOf(path) ==
  {v \in VideoIds : unit.dl[v].pc = "writing" /\ unit.dl[v].filePath = path}

(* C34: at no time do the downloads of two videos write to the same file   *)
(* of the temp directory.                                                   *)
OneWriterPerTempFile ==
  unit.fn = "downloadVideo" =>
    \A path \in DOMAIN files : Cardinality(WritersOf(path)) <= 1

(* C35: a call that returns the path of a file it found, without           *)
(* downloading, returns a file that a download wrote to its end: never one  *)
(* that a failed download left, nor one that is still being written.        *)
CachedFileIsComplete ==
  unit.fn = "downloadVideo" =>
    \A v \in VideoIds :
      (unit.dl[v].pc = "resolved" /\ unit.dl[v].cached) =>
        /\ files[unit.dl[v].filePath] = "complete"
        /\ WritersOf(unit.dl[v].filePath) = {}

(***************************************************************************)
(* Properties of the options processVideo segments a video with             *)
(***************************************************************************)
(* the options the configuration of the video asks for *)
ConfiguredOptions(v) ==
  IF isDefined(VideoConfigs[v].formatOptions)
  THEN VideoConfigs[v].formatOptions
  ELSE DefaultOptions

(* C36: once processVideo has called segmentVideo for a video, the call    *)
(* runs with the formatOptions of the video's configuration, or with the    *)
(* defaults when it has none: the destinations carry the extension of that  *)
(* format and the runs are forced encodes exactly when forceEncode is set.  *)
ConfiguredOptionsUsed ==
  \A v \in DOMAIN pv :
    sv[v].pc # "idle" =>
      /\ sv[v].options = ConfiguredOptions(v)
      /\ \A k \in 1..Len(sv[v].outputPaths) :
           sv[v].outputPaths[k][Len(sv[v].outputPaths[k])]
             = formatExtension(ConfiguredOptions(v).format)
      /\ \A k \in 1..Len(sv[v].invocations) :
           (sv[v].invocations[k].step = "forced") = ConfiguredOptions(v).forceEncode

(***************************************************************************)
(* Properties of the base name of a destination                             *)
(***************************************************************************)
(* C37: whatever the name of the segment, the destination has a non-empty  *)
(* base name: the sanitized name when the segment has a name, and the       *)
(* segment_{index + 1} placeholder otherwise.                               *)
BaseNameNeverEmpty ==
  unit.fn = "outputPath" =>
    /\ BaseName(unit.path) # <<>>
    /\ \/ /\ unit.segment.name # Null
          /\ BaseName(unit.path) = CollapseSpaces(RemoveUnsafe(unit.segment.name))
       \/ BaseName(unit.path) = SegmentPlaceholder(unit.index)

(***************************************************************************)
(* One call of segmentVideo under the scheduling of the event loop: the    *)
(* loop goes on whenever it can, and every run of the tool that was started *)
(* eventually emits 'end' or 'error'.                                       *)
(***************************************************************************)
(* the calls followed to their end: lists of up to MaxSegs segments, with  *)
(* and without forceEncode, for a format that is copied first and one that  *)
(* is not                                                                   *)
OneCallSegmentLists ==
  UNION {[1..n -> {SegIntro, SegBackwards}] : n \in 1..MaxSegs}

OneCallOptionSets ==
  [format : {"mp4", "webm"}, quality : {"medium"}, forceEncode : BOOLEAN,
   audioOnly : {FALSE}]

StartOneCall(c) ==
  /\ sv[c].pc = "idle"
  /\ \E segments \in OneCallSegmentLists, options \in OneCallOptionSets :
       sv' = [sv EXCEPT ![c] = EnterSegmentVideo(c, segments, options, "out")]
  /\ UNCHANGED files
  /\ OrchestrationUnchanged

NextOneCall ==
  \/ StartOneCall("direct")
  \/ SegmentVideoStep("direct")

FairSpecOneCall ==
  Init /\ [][NextOneCall]_vars /\ WF_vars(SegmentVideoStep("direct"))

(* the call is inside segmentVideo *)
InCall(c) == sv[c].pc \in {"loop", "copy", "fallback", "forced"}

(* the runs of the tool the call has made are within its budget: two per  *)
(* segment, one per segment when forceEncode is set                         *)
WithinRunBudget(c) ==
  /\ Len(sv[c].invocations) <= 2 * Len(sv[c].segments)
  /\ sv[c].options.forceEncode => Len(sv[c].invocations) <= Len(sv[c].segments)

(* C38: a call of segmentVideo eventually returns or throws, having made   *)
(* no more than two runs of the tool per segment, and no more than one per  *)
(* segment when forceEncode is set.                                         *)
SegmentVideoTerminates ==
  InCall("direct") ~>
    (sv["direct"].pc \in {"returned", "thrown"} /\ WithinRunBudget("direct"))

SegmentVideoTerminatesWitness ==
  /\ "direct" \in DOMAIN sv
  /\ sv["direct"].pc = "returned"
  /\ Len(sv["direct"].segments) = 2
  /\ Len(sv["direct"].invocations) = 4

====
